---- MODULE Spec2Model ----
(***************************************************************************)
(* Redbin codec (serde data format): the encoder of src/src/ser.rs and the *)
(* decoder of src/src/de.rs over byte sequences.                           *)
(*                                                                         *)
(* Bytes are integers 0..255 and a buffer is a sequence of bytes.  Host    *)
(* values are records [k, v]; host types are records [k, name, names, of]. *)
(* 64-bit and unsigned 32-bit integers are kept as little-endian sequences *)
(* of 16-bit limbs so that every arithmetic step stays inside 32 bits.     *)
(***************************************************************************)
EXTENDS Integers, Sequences, FiniteSets, TLC

(***************************************************************************)
(* Bounds of the model.                                                    *)
(***************************************************************************)
MaxSeqLen == 2
MaxStrLen == 4
MaxBlobLen == 4
MaxPatchPos == 28
MaxPatchWord == 9
MaxCut == 12
MaxTrailing == 2
MaxPad == 4

(***************************************************************************)
(* Value tags: mod types of ser.rs and de.rs.                              *)
(***************************************************************************)
types_NONE == 3
types_LOGIC == 4
types_BLOCK == 5
types_PAREN == 6
types_STRING == 7
types_CHAR == 10
types_INTEGER == 11
types_FLOAT == 12
types_BYTES == 41
types_BINARY == 41

I32_MAX == 2147483647
I32_MIN == -2147483647 - 1

(***************************************************************************)
(* Byte-level helpers.                                                     *)
(***************************************************************************)
Byte == 0..255

\* i32::to_le_bytes: two's complement, least significant byte first.
to_le_bytes(v) ==
    LET x == IF v >= 0 THEN v ELSE (v + I32_MAX) + 1
        top == IF v >= 0 THEN x \div 16777216 ELSE (x \div 16777216) + 128
    IN  <<x % 256, (x \div 256) % 256, (x \div 65536) % 256, top>>

\* i32::from_le_bytes on a 4-byte sequence.
from_le_bytes(b) ==
    LET low == b[1] + 256 * b[2] + 65536 * b[3]
    IN  IF b[4] < 128
        THEN low + 16777216 * b[4]
        ELSE ((low + 16777216 * (b[4] - 128)) - I32_MAX) - 1

\* &s[a..b] of a sequence s (0-based, half open); the caller checks bounds.
Slice(s, a, b) == SubSeq(s, a + 1, b)

\* s[a..]
From(s, a) == SubSeq(s, a + 1, Len(s))

RECURSIVE Flatten(_)
Flatten(ss) == IF ss = <<>> THEN <<>> ELSE Head(ss) \o Flatten(Tail(ss))

Zeros(n) == [i \in 1..n |-> 0]

(***************************************************************************)
(* Text: a string is the sequence of its code points.                      *)
(***************************************************************************)
\* char::len_utf8
len_utf8(c) == IF c < 128 THEN 1 ELSE IF c < 2048 THEN 2 ELSE IF c < 65536 THEN 3 ELSE 4

RECURSIVE str_len(_)
\* str::len: the UTF-8 byte length
str_len(s) == IF s = <<>> THEN 0 ELSE len_utf8(Head(s)) + str_len(Tail(s))

\* char::encode_utf8
encode_utf8(c) ==
    IF c < 128 THEN <<c>>
    ELSE IF c < 2048 THEN <<192 + (c \div 64), 128 + (c % 64)>>
    ELSE IF c < 65536 THEN <<224 + (c \div 4096), 128 + ((c \div 64) % 64), 128 + (c % 64)>>
    ELSE <<240 + (c \div 262144), 128 + ((c \div 4096) % 64),
           128 + ((c \div 64) % 64), 128 + (c % 64)>>

\* str::as_bytes
as_bytes(s) == Flatten([i \in 1..Len(s) |-> encode_utf8(s[i])])

\* Ic::ucs4_encode: UTF-8 to UCS-4LE, four little-endian bytes a code point.
ucs4_encode(s) == Flatten([i \in 1..Len(s) |-> to_le_bytes(s[i])])

(***************************************************************************)
(* Host types and values.  A type is [k, name, names, of]: its kind, the   *)
(* variant name (enum variants), the field names (records) and the types   *)
(* it is built from.  A value is [k, v]: Some(x) is Val("some", <<x>>),    *)
(* None is Val("none", <<>>), an enum value is Val("variant", <<i, p>>)    *)
(* with i the index of the variant in the type and p its payload (<<>> for *)
(* a unit variant, the value for a newtype variant, the sequence of field  *)
(* values for tuple and struct variants).                                  *)
(***************************************************************************)
Ty(k, name, names, of) == [k |-> k, name |-> name, names |-> names, of |-> of]
Prim(k) == Ty(k, <<>>, <<>>, <<>>)
Val(k, v) == [k |-> k, v |-> v]

(***************************************************************************)
(* Wide integers as little-endian 16-bit limbs.                            *)
(***************************************************************************)
\* u32 as u64 (zero extension)
u32_as_u64(w) == <<w[1], w[2], 0, 0>>

\* a faulty range test against u32::MAX; C13 tells it from the code
u64_gt_u32_max(w) == w[4] # 0 \/ w[3] # 0

\* u64 > i32::MAX as u64
u64_gt_i32_max(w) == w[4] # 0 \/ w[3] # 0 \/ w[2] >= 32768

\* i64 > i32::MAX as i64 || i64 < i32::MIN as i64
i64_outside_i32(w) ==
    IF w[4] < 32768
    THEN w[4] # 0 \/ w[3] # 0 \/ w[2] >= 32768
    ELSE ~(w[4] = 65535 /\ w[3] = 65535 /\ w[2] >= 32768)

\* `as i32` of a 64-bit value: the low 32 bits, read as signed
wide_as_i32(w) ==
    IF w[2] < 32768
    THEN w[1] + 65536 * w[2]
    ELSE ((w[1] + 65536 * (w[2] - 32768)) - I32_MAX) - 1

\* i32 as i64 (sign extension)
i32_as_i64(v) ==
    LET b == to_le_bytes(v)
        ext == IF v < 0 THEN 65535 ELSE 0
    IN  <<b[1] + 256 * b[2], b[3] + 256 * b[4], ext, ext>>

\* i32 as u32 of a non-negative value
i32_as_u32(v) == <<v % 65536, v \div 65536>>

(***************************************************************************)
(* Serializer (src/src/ser.rs).  self is [output, length, err]; err is ""  *)
(* while every step so far returned Ok.                                    *)
(***************************************************************************)
Serializer_new_with == [output |-> <<>>, length |-> 0, err |-> ""]

Failed(self, msg) == [self EXCEPT !.err = msg]

\* a faulty append_any_block_header that writes 1 as the head position; C24
\* tells it from the code
append_any_block_header_head_1(vec, length, paren) ==
    LET t == IF paren THEN types_PAREN ELSE types_BLOCK
    IN  vec \o to_le_bytes(t) \o <<1, 0, 0, 0>> \o to_le_bytes(length)

append_any_block_header(vec, length, paren) ==
    LET t == IF paren THEN types_PAREN ELSE types_BLOCK
    IN  vec \o to_le_bytes(t) \o <<0, 0, 0, 0>> \o to_le_bytes(length)

block_header_with(self, len) ==
    [self EXCEPT !.output = append_any_block_header(@, len, FALSE), !.length = len]

variant_header(self, with_value) ==
    LET length == IF with_value THEN 2 ELSE 1
    IN  [self EXCEPT !.output = append_any_block_header(@, length, TRUE),
                     !.length = length]

\* a faulty prepend_block_header that puts the block header after the
\* elements; C20 tells it from the code
append_block_header(self) ==
    [self EXCEPT !.output = append_any_block_header(@, self.length, FALSE)]

prepend_block_header(self) ==
    [self EXCEPT !.output = append_any_block_header(<<>>, self.length, FALSE) \o @]

serialize_bool(self, v) ==
    [self EXCEPT !.output = @ \o to_le_bytes(types_LOGIC)
                              \o to_le_bytes(IF v THEN 1 ELSE 0)]

serialize_i32(self, v) ==
    [self EXCEPT !.output = @ \o to_le_bytes(types_INTEGER) \o to_le_bytes(v)]

serialize_i8(self, v) == serialize_i32(self, v)

serialize_i16(self, v) == serialize_i32(self, v)

serialize_i64(self, v) ==
    IF i64_outside_i32(v)
    THEN Failed(self, "32-bit integer! limit exceeded")
    ELSE serialize_i32(self, wide_as_i32(v))

serialize_u8(self, v) == serialize_i32(self, v)

serialize_u16(self, v) == serialize_i32(self, v)

serialize_u64(self, v) ==
    IF u64_gt_i32_max(v)
    THEN Failed(self, "32-bit integer! limit exceeded")
    ELSE serialize_i32(self, wide_as_i32(v))

serialize_u32(self, v) == serialize_u64(self, u32_as_u64(v))

\* v is the standard 8-byte little-endian representation of the double
serialize_f64(self, v) ==
    LET bytes == v \o Slice(v, 0, 4)
    IN  [self EXCEPT !.output = @ \o to_le_bytes(types_FLOAT) \o Slice(bytes, 4, 12)]

serialize_char(self, v) ==
    [self EXCEPT !.output = @ \o to_le_bytes(types_CHAR) \o ucs4_encode(<<v>>)]

\* a faulty serialize_str that writes the UTF-8 byte count as the length of a
\* non-ASCII string; C17 tells it from the code
serialize_str_byte_count(self, v) ==
    LET len == Len(v)
        ascii == len = str_len(v)
        tag == to_le_bytes(types_STRING)
        header == [tag EXCEPT ![2] = IF ascii THEN 1 ELSE 4]
        encoded == IF ascii THEN as_bytes(v) ELSE ucs4_encode(v)
        padding == IF ascii THEN (4 - (len % 4)) % 4 ELSE 0
    IN  [self EXCEPT !.output = @ \o header \o <<0, 0, 0, 0>> \o to_le_bytes(str_len(v))
                                  \o encoded \o Zeros(padding)]

serialize_str(self, v) ==
    LET len == Len(v)
        ascii == len = str_len(v)
        tag == to_le_bytes(types_STRING)
        header == [tag EXCEPT ![2] = IF ascii THEN 1 ELSE 4]
        encoded == IF ascii THEN as_bytes(v) ELSE ucs4_encode(v)
        padding == IF ascii THEN (4 - (len % 4)) % 4 ELSE 0
    IN  [self EXCEPT !.output = @ \o header \o <<0, 0, 0, 0>> \o to_le_bytes(len)
                                  \o encoded \o Zeros(padding)]

\* a faulty serialize_bytes that pads an aligned blob with 4 more bytes; C16
\* tells it from the code
serialize_bytes_pads_4(self, v) ==
    LET len == Len(v)
        tag == to_le_bytes(types_BYTES)
        header == [tag EXCEPT ![2] = 1]
        padding == 4 - (len % 4)
    IN  [self EXCEPT !.output = @ \o header \o <<0, 0, 0, 0>> \o to_le_bytes(len)
                                  \o v \o Zeros(padding)]

serialize_bytes(self, v) ==
    LET len == Len(v)
        tag == to_le_bytes(types_BYTES)
        header == [tag EXCEPT ![2] = 1]
        padding == (4 - (len % 4)) % 4
    IN  [self EXCEPT !.output = @ \o header \o <<0, 0, 0, 0>> \o to_le_bytes(len)
                                  \o v \o Zeros(padding)]

serialize_none(self) == [self EXCEPT !.output = @ \o to_le_bytes(types_NONE)]

serialize_unit(self) == serialize_none(self)

serialize_unit_struct(self) == serialize_none(self)

serialize_unit_variant(self, variant) == serialize_str(variant_header(self, FALSE), variant)

serialize_seq(self) == self

serialize_tuple(self, len) == block_header_with(self, len)

serialize_tuple_struct(self, len) == block_header_with(self, len)

serialize_tuple_variant(self, variant, len) ==
    LET s == serialize_str(variant_header(self, TRUE), variant)
    IN  IF s.err # "" THEN s ELSE block_header_with(s, len)

serialize_map(self) == self

\* a faulty serialize_struct that counts fields, not names and values; C18
\* tells it from the code
serialize_struct_len(self, len) == block_header_with(self, len)

serialize_struct(self, len) == block_header_with(self, len * 2)

\* a faulty serialize_struct_variant that counts fields, not names and values;
\* C8 tells it from the code
serialize_struct_variant_len(self, variant, len) ==
    LET s == serialize_str(variant_header(self, TRUE), variant)
    IN  IF s.err # "" THEN s ELSE block_header_with(s, len)

serialize_struct_variant(self, variant, len) ==
    LET s == serialize_str(variant_header(self, TRUE), variant)
    IN  IF s.err # "" THEN s ELSE block_header_with(s, len * 2)

(***************************************************************************)
(* The recursive part of the serializer.  serialize(self, t, value) is     *)
(* value.serialize(self) for a host value of type t: the Serialize impl of *)
(* the type (serde's for the built-in types, the derived one for records   *)
(* and enums) calling the Serializer methods.                              *)
(***************************************************************************)
RECURSIVE serialize(_, _, _)
RECURSIVE elements(_, _, _)
RECURSIVE collect_seq(_, _, _)
RECURSIVE collect_map(_, _, _, _)
RECURSIVE collect_tuple(_, _, _)
RECURSIVE collect_fields(_, _, _, _)

elements(self, t, value) ==
    LET serializer == serialize(Serializer_new_with, t, value)
    IN  IF serializer.err # ""
        THEN Failed(self, serializer.err)
        ELSE [self EXCEPT !.output = @ \o serializer.output]

serialize_some(self, t, value) == serialize(self, t, value)

serialize_newtype_struct(self, t, value) == serialize(self, t, value)

serialize_newtype_variant(self, variant, t, value) ==
    LET s == serialize_str(variant_header(self, TRUE), variant)
    IN  IF s.err # "" THEN s ELSE serialize(s, t, value)

SerializeSeq_serialize_element(self, t, value) ==
    LET s == elements(self, t, value)
    IN  IF s.err # "" THEN s ELSE [s EXCEPT !.length = @ + 1]

SerializeSeq_end(self) == prepend_block_header(self)

SerializeTuple_serialize_element(self, t, value) == elements(self, t, value)

SerializeTuple_end(self) == self

SerializeMap_serialize_key(self, t, key) ==
    LET s == elements(self, t, key)
    IN  IF s.err # "" THEN s ELSE [s EXCEPT !.length = @ + 1]

SerializeMap_serialize_value(self, t, value) ==
    LET s == elements(self, t, value)
    IN  IF s.err # "" THEN s ELSE [s EXCEPT !.length = @ + 1]

SerializeMap_end(self) == prepend_block_header(self)

SerializeStruct_serialize_field(self, key, t, value) ==
    LET s == elements(self, Prim("str"), Val("string", key))
    IN  IF s.err # "" THEN s ELSE elements(s, t, value)

SerializeStruct_end(self) == self

\* for e in iter { seq.serialize_element(&e)?; }
collect_seq(self, t, items) ==
    IF items = <<>> THEN self
    ELSE LET s == SerializeSeq_serialize_element(self, t, Head(items))
         IN  IF s.err # "" THEN s ELSE collect_seq(s, t, Tail(items))

\* for (k, v) in iter { map.serialize_key(&k)?; map.serialize_value(&v)?; }
collect_map(self, kt, vt, pairs) ==
    IF pairs = <<>> THEN self
    ELSE LET s1 == SerializeMap_serialize_key(self, kt, Head(pairs)[1])
             s2 == SerializeMap_serialize_value(s1, vt, Head(pairs)[2])
         IN  IF s1.err # "" THEN s1
             ELSE IF s2.err # "" THEN s2
             ELSE collect_map(s2, kt, vt, Tail(pairs))

\* tuple.serialize_element(&self.0)?; tuple.serialize_element(&self.1)?; ...
collect_tuple(self, ts, items) ==
    IF items = <<>> THEN self
    ELSE LET s == SerializeTuple_serialize_element(self, Head(ts), Head(items))
         IN  IF s.err # "" THEN s ELSE collect_tuple(s, Tail(ts), Tail(items))

\* state.serialize_field("a", &self.a)?; state.serialize_field("b", &self.b)?; ...
collect_fields(self, names, ts, items) ==
    IF items = <<>> THEN self
    ELSE LET s == SerializeStruct_serialize_field(self, Head(names), Head(ts), Head(items))
         IN  IF s.err # "" THEN s
             ELSE collect_fields(s, Tail(names), Tail(ts), Tail(items))

\* `end` is called only when every element was written
Finish(s, ended) == IF s.err # "" THEN s ELSE ended

serialize_variant(self, var, payload) ==
    CASE var.k = "unit_variant" -> serialize_unit_variant(self, var.name)
      [] var.k = "newtype_variant" ->
            serialize_newtype_variant(self, var.name, var.of[1], payload)
      [] var.k = "tuple_variant" ->
            LET s0 == serialize_tuple_variant(self, var.name, Len(var.of))
                s == IF s0.err # "" THEN s0 ELSE collect_tuple(s0, var.of, payload)
            IN  Finish(s, SerializeTuple_end(s))
      [] var.k = "struct_variant" ->
            LET s0 == serialize_struct_variant(self, var.name, Len(var.of))
                s == IF s0.err # "" THEN s0
                     ELSE collect_fields(s0, var.names, var.of, payload)
            IN  Finish(s, SerializeStruct_end(s))

serialize(self, t, value) ==
    CASE t.k = "bool" -> serialize_bool(self, value.v)
      [] t.k = "i8" -> serialize_i8(self, value.v)
      [] t.k = "i16" -> serialize_i16(self, value.v)
      [] t.k = "i32" -> serialize_i32(self, value.v)
      [] t.k = "i64" -> serialize_i64(self, value.v)
      [] t.k = "u8" -> serialize_u8(self, value.v)
      [] t.k = "u16" -> serialize_u16(self, value.v)
      [] t.k = "u32" -> serialize_u32(self, value.v)
      [] t.k = "u64" -> serialize_u64(self, value.v)
      [] t.k = "f64" -> serialize_f64(self, value.v)
      [] t.k = "char" -> serialize_char(self, value.v)
      [] t.k \in {"str", "string"} -> serialize_str(self, value.v)
      [] t.k = "byte_buf" -> serialize_bytes(self, value.v)
      [] t.k = "unit" -> serialize_unit(self)
      [] t.k = "unit_struct" -> serialize_unit_struct(self)
      [] t.k = "option" ->
            IF value.k = "none" THEN serialize_none(self)
            ELSE serialize_some(self, t.of[1], value.v[1])
      [] t.k = "newtype_struct" -> serialize_newtype_struct(self, t.of[1], value.v)
      [] t.k = "seq" ->
            LET s == collect_seq(serialize_seq(self), t.of[1], value.v)
            IN  Finish(s, SerializeSeq_end(s))
      [] t.k = "tuple" ->
            LET s == collect_tuple(serialize_tuple(self, Len(t.of)), t.of, value.v)
            IN  Finish(s, SerializeTuple_end(s))
      [] t.k = "tuple_struct" ->
            LET s == collect_tuple(serialize_tuple_struct(self, Len(t.of)), t.of, value.v)
            IN  Finish(s, SerializeTuple_end(s))
      [] t.k = "map" ->
            LET s == collect_map(serialize_map(self), t.of[1], t.of[2], value.v)
            IN  Finish(s, SerializeMap_end(s))
      [] t.k = "struct" ->
            LET s == collect_fields(serialize_struct(self, Len(t.of)),
                                    t.names, t.of, value.v)
            IN  Finish(s, SerializeStruct_end(s))
      [] t.k = "enum" -> serialize_variant(self, t.of[value.v[1]], value.v[2])

\* the 12 fixed bytes of the envelope: "REDBIN", version, flags, record count
EnvelopePrefix == <<82, 69, 68, 66, 73, 78, 2, 0, 1, 0, 0, 0>>

\* a faulty to_bytes_with that writes the total length in the length field;
\* C6 tells it from the code
to_bytes_with_total_length(t, value) ==
    LET serializer == serialize(Serializer_new_with, t, value)
    IN  IF serializer.err # ""
        THEN [ok |-> FALSE, err |-> serializer.err, bytes |-> <<>>]
        ELSE [ok |-> TRUE, err |-> "",
              bytes |-> (EnvelopePrefix \o to_le_bytes(Len(serializer.output) + 16))
                        \o serializer.output]

to_bytes_with(t, value) ==
    LET header == EnvelopePrefix
        serializer == serialize(Serializer_new_with, t, value)
    IN  IF serializer.err # ""
        THEN [ok |-> FALSE, err |-> serializer.err, bytes |-> <<>>]
        ELSE [ok |-> TRUE, err |-> "",
              bytes |-> (header \o to_le_bytes(Len(serializer.output)))
                        \o serializer.output]

to_bytes(t, value) == to_bytes_with(t, value)

(***************************************************************************)
(* Deserializer (src/src/de.rs).  Every step returns a result record       *)
(* [st, err, val, input]: st is "ok", "err" (an Err(Error) returned to the *)
(* caller) or "panic" (the thread aborts: a slice or index out of range,   *)
(* unwrap on Err, unimplemented!); input is the cursor self.input as the   *)
(* step leaves it.                                                         *)
(***************************************************************************)
NoVal == [k |-> "novalue", v |-> <<>>]
Ok(val, input) == [st |-> "ok", err |-> "", val |-> val, input |-> input]
Err(e, input) == [st |-> "err", err |-> e, val |-> NoVal, input |-> input]
Panic(msg, input) == [st |-> "panic", err |-> msg, val |-> NoVal, input |-> input]
IsOk(r) == r.st = "ok"

\* a faulty parse_padding that skips at most the 3 zero bytes of an alignment
\* gap; C21 tells it from the code
parse_padding_to_alignment(input) ==
    LET z == {i \in 0..3 : i <= Len(input) /\ \A j \in 1..i : input[j] = 0}
    IN  From(input, CHOOSE i \in z : \A j \in z : j <= i)

\* the zero bytes the loop of parse_padding removes from the front
parse_padding(input) ==
    LET nz == {i \in 1..Len(input) : input[i] # 0}
    IN  IF nz = {} THEN <<>>
        ELSE From(input, (CHOOSE i \in nz : \A j \in nz : i <= j) - 1)

parse_header(input) ==
    LET header_len == 16
    IN  IF Len(input) < header_len
        THEN Panic("range start index out of range", input)
        ELSE Ok(<<>>, From(input, header_len))

parse_integer(input0) ==
    LET input == parse_padding(input0)
    IN  IF Len(input) < 4 THEN Panic("range end index out of range", input)
        ELSE IF Slice(input, 0, 4) = <<types_INTEGER, 0, 0, 0>>
        THEN IF Len(input) < 8 THEN Panic("range end index out of range", input)
             ELSE Ok(from_le_bytes(Slice(input, 4, 8)), From(input, 8))
        ELSE Err("ExpectedInteger", input)

parse_any_block_header(input0, record_type) ==
    LET input == parse_padding(input0)
    IN  IF Len(input) < 4 THEN Panic("range end index out of range", input)
        ELSE IF Slice(input, 0, 4) = <<record_type, 0, 0, 0>>
        THEN IF Len(input) < 12 THEN Panic("range end index out of range", input)
             ELSE Ok(from_le_bytes(Slice(input, 8, 12)), From(input, 12))
        ELSE Err("ExpectedBlock", input)

parse_block_header(input) == parse_any_block_header(input, types_BLOCK)

parse_paren_header(input) == parse_any_block_header(input, types_PAREN)

\* a faulty parse_logic that takes the tag word before it turns it down; C25
\* tells it from the code
parse_logic_takes_tag(input0) ==
    LET input == parse_padding(input0)
    IN  IF Len(input) < 4 THEN Panic("range end index out of range", input)
        ELSE IF Slice(input, 0, 4) = <<types_LOGIC, 0, 0, 0>>
        THEN IF Len(input) < 8 THEN Panic("range end index out of range", input)
             ELSE Ok(from_le_bytes(Slice(input, 4, 8)) # 0, From(input, 8))
        ELSE Err("ExpectedLogic", From(input, 4))

parse_logic(input0) ==
    LET input == parse_padding(input0)
    IN  IF Len(input) < 4 THEN Panic("range end index out of range", input)
        ELSE IF Slice(input, 0, 4) = <<types_LOGIC, 0, 0, 0>>
        THEN IF Len(input) < 8 THEN Panic("range end index out of range", input)
             ELSE Ok(from_le_bytes(Slice(input, 4, 8)) # 0, From(input, 8))
        ELSE Err("ExpectedLogic", input)

\* the value is the standard 8-byte little-endian representation of the double
\* a faulty parse_float that reads the 8 bytes in wire order; C15 tells it
\* from the code
parse_float_in_wire_order(input0) ==
    LET input == parse_padding(input0)
    IN  IF Len(input) < 4 THEN Panic("range end index out of range", input)
        ELSE IF Slice(input, 0, 4) = <<types_FLOAT, 0, 0, 0>>
        THEN IF Len(input) < 12 THEN Panic("range end index out of range", input)
             ELSE Ok(Slice(input, 4, 12), From(input, 12))
        ELSE Err("ExpectedFloat", input)

parse_float(input0) ==
    LET input == parse_padding(input0)
    IN  IF Len(input) < 4 THEN Panic("range end index out of range", input)
        ELSE IF Slice(input, 0, 4) = <<types_FLOAT, 0, 0, 0>>
        THEN IF Len(input) < 12 THEN Panic("range end index out of range", input)
             ELSE Ok(Slice(input, 8, 12) \o Slice(input, 4, 8), From(input, 12))
        ELSE Err("ExpectedFloat", input)

(***************************************************************************)
(* Text decoding.                                                          *)
(***************************************************************************)
IsCont(b) == b >= 128 /\ b <= 191
IsScalar(c) == c >= 0 /\ c <= 1114111 /\ ~(c >= 55296 /\ c <= 57343)

RECURSIVE from_utf8(_)
\* String::from_utf8 / std::str::from_utf8: [ok, s]
from_utf8(b) ==
    IF b = <<>> THEN [ok |-> TRUE, s |-> <<>>]
    ELSE LET b1 == b[1]
             n == IF b1 < 128 THEN 1
                  ELSE IF b1 >= 194 /\ b1 <= 223 THEN 2
                  ELSE IF b1 >= 224 /\ b1 <= 239 THEN 3
                  ELSE IF b1 >= 240 /\ b1 <= 244 THEN 4
                  ELSE 0
             wellformed ==
                /\ n > 0
                /\ Len(b) >= n
                /\ \A i \in 2..n : IsCont(b[i])
                /\ (b1 = 224 => b[2] >= 160)
                /\ (b1 = 237 => b[2] <= 159)
                /\ (b1 = 240 => b[2] >= 144)
                /\ (b1 = 244 => b[2] <= 143)
             c == CASE n = 1 -> b1
                    [] n = 2 -> (b1 - 192) * 64 + (b[2] - 128)
                    [] n = 3 -> (b1 - 224) * 4096 + (b[2] - 128) * 64 + (b[3] - 128)
                    [] n = 4 -> (b1 - 240) * 262144 + (b[2] - 128) * 4096
                                + (b[3] - 128) * 64 + (b[4] - 128)
             rest == from_utf8(From(b, n))
         IN  IF ~wellformed THEN [ok |-> FALSE, s |-> <<>>]
             ELSE IF ~rest.ok THEN rest
             ELSE [ok |-> TRUE, s |-> <<c>> \o rest.s]

\* UCS-4LE to UTF-8 through iconv: [ok, s]
ucs4_decode(b) ==
    LET n == Len(b) \div 4
        cps == [i \in 1..n |-> from_le_bytes(Slice(b, 4 * (i - 1), 4 * i))]
    IN  IF Len(b) % 4 # 0 \/ \E i \in 1..n : ~IsScalar(cps[i])
        THEN [ok |-> FALSE, s |-> <<>>]
        ELSE [ok |-> TRUE, s |-> cps]

\* UCS-2LE to UTF-8 through iconv: [ok, s]
ucs2_decode(b) ==
    LET n == Len(b) \div 2
        cps == [i \in 1..n |-> b[2 * i - 1] + 256 * b[2 * i]]
    IN  IF Len(b) % 2 # 0 \/ \E i \in 1..n : ~IsScalar(cps[i])
        THEN [ok |-> FALSE, s |-> <<>>]
        ELSE [ok |-> TRUE, s |-> cps]

\* the closures parse_string hands to parse_s
string_f1(bytes, input) ==
    LET r == from_utf8(bytes)
    IN  IF r.ok THEN Ok(r.s, input) ELSE Err("Message: invalid utf-8", input)

string_f2(bytes, input) ==
    LET r == ucs2_decode(bytes)
    IN  IF r.ok THEN Ok(r.s, input) ELSE Err("Message: iconv", input)

string_f4(bytes, input) ==
    LET r == ucs4_decode(bytes)
    IN  IF r.ok THEN Ok(r.s, input) ELSE Err("Message: iconv", input)

\* the closures parse_str hands to parse_s
str_f1(bytes, input) == string_f1(bytes, input)

str_f2(bytes, input) == Err("Message: &str possible only for ASCII", input)

str_f4(bytes, input) == Err("Message: &str possible only for ASCII", input)

\* bit 0x08 of the third byte of the tag word
refer_flag(b) == (b \div 8) % 2 = 1

\* The header fields and the content slice shared by parse_s and parse_binary
\* (de.rs 145-153 and 210-218): head and length are i32 read `as usize`, so a
\* negative one is at least 2^63; input is the cursor at the tag byte and holds
\* at least 3 bytes.  The result is the content and the cursor after the
\* padding skip, or a panic.
series_content(input) ==
    IF Len(input) < 12 THEN Panic("range end index out of range", input)
    ELSE LET unit == input[2]
             head == from_le_bytes(Slice(input, 4, 8))
             length == from_le_bytes(Slice(input, 8, 12))
             input1 == From(input, 12)
             \* n = length * unit exceeds the buffer (or overflows usize)
             toolong == unit # 0 /\ (length < 0 \/ length > Len(input1))
             n == IF unit = 0 THEN 0 ELSE length * unit
         IN  IF toolong THEN Panic("range end index out of range", input1)
             ELSE IF n > Len(input1) THEN Panic("range end index out of range", input1)
             ELSE IF head < 0 \/ head > n
             THEN Panic("slice index starts after its end", input1)
             ELSE Ok(Slice(input1, head, n), parse_padding(From(input1, n)))

\* closures names the caller whose f1, f2, f4 are applied: "str" or "string"
parse_s(input0, closures) ==
    LET input == parse_padding(input0)
    IN  IF Len(input) < 1 THEN Panic("index out of bounds", input)
        ELSE IF input[1] = types_STRING
        THEN IF Len(input) < 3 THEN Panic("index out of bounds", input)
             ELSE LET unit == input[2]
                      refer == refer_flag(input[3])
                      c == series_content(input)
                  IN  IF refer THEN Panic("not implemented: references", input)
                      ELSE IF ~IsOk(c) THEN c
                      ELSE IF unit = 1
                      THEN IF closures = "str" THEN str_f1(c.val, c.input)
                           ELSE string_f1(c.val, c.input)
                      ELSE IF unit = 2
                      THEN IF closures = "str" THEN str_f2(c.val, c.input)
                           ELSE string_f2(c.val, c.input)
                      ELSE IF closures = "str" THEN str_f4(c.val, c.input)
                           ELSE string_f4(c.val, c.input)
        ELSE Err("ExpectedString", input)

parse_str(input) == parse_s(input, "str")

parse_string(input) == parse_s(input, "string")

parse_char(input0) ==
    LET input == parse_padding(input0)
    IN  IF Len(input) < 1 THEN Panic("index out of bounds", input)
        ELSE IF input[1] = types_CHAR
        THEN IF Len(input) < 8 THEN Panic("range end index out of range", input)
             ELSE LET r == ucs4_decode(Slice(input, 4, 8))
                  IN  IF r.ok THEN Ok(r.s[1], From(input, 8))
                      ELSE Err("Message: iconv", From(input, 8))
        ELSE Err("ExpectedChar", input)

parse_binary(input0) ==
    LET input == parse_padding(input0)
    IN  IF Len(input) < 1 THEN Panic("index out of bounds", input)
        ELSE IF input[1] = types_BINARY
        THEN IF Len(input) < 3 THEN Panic("index out of bounds", input)
             ELSE LET unit == input[2]
                      refer == refer_flag(input[3])
                      c == series_content(input)
                  IN  IF refer THEN Panic("not implemented: references", input)
                      ELSE IF ~IsOk(c) THEN c
                      ELSE IF unit = 1 THEN c
                      ELSE Panic("not implemented: unit size <> 1", c.input)
        ELSE Err("ExpectedBinary", input)

parse_binary_owned(input) == parse_binary(input)

parse_none(input0) ==
    LET input == parse_padding(input0)
    IN  IF Len(input) < 1 THEN Panic("index out of bounds", input)
        ELSE IF input[1] = types_NONE
        THEN IF Len(input) < 4 THEN Panic("range start index out of range", input)
             ELSE Ok(<<>>, From(input, 4))
        ELSE Err("ExpectedNone", input)

(***************************************************************************)
(* The recursive part of the deserializer.  deserialize(input, t) is       *)
(* T::deserialize(&mut deserializer) for the host type t: the Deserialize  *)
(* impl of the type calls one deserialize_* method and its visitor builds  *)
(* the value, asking the accessors BlockData and Enum for the parts.       *)
(* An accessor step returns [r, some, elements]: the result, whether an    *)
(* element was returned, and the counter BlockData.elements afterwards.    *)
(***************************************************************************)
RECURSIVE deserialize(_, _)

Access(r, some, remaining) == [r |-> r, some |-> some, elements |-> remaining]

BlockData_new(input, len) == [input |-> input, elements |-> len]

\* let v = seed.deserialize(&mut *self.de)?; self.elements -= 1; Ok(v):
\* an Err leaves the counter, a value takes 1 off it
Returned(v, n) == IF ~IsOk(v) THEN Access(v, FALSE, n) ELSE Access(v, TRUE, n - 1)

\* a faulty next_element_seed that goes on when the counter is 0; C22 tells
\* it from the code
SeqAccess_next_element_seed_at_0(self, t) ==
    IF self.elements < 0 THEN Access(Ok(NoVal, self.input), FALSE, self.elements)
    ELSE Returned(deserialize(self.input, t), self.elements)

SeqAccess_next_element_seed(self, t) ==
    IF self.elements <= 0 THEN Access(Ok(NoVal, self.input), FALSE, self.elements)
    ELSE Returned(deserialize(self.input, t), self.elements)

MapAccess_next_key_seed(self, t) ==
    IF self.elements < 2 THEN Access(Ok(NoVal, self.input), FALSE, self.elements)
    ELSE Returned(deserialize(self.input, t), self.elements)

\* a faulty next_value_seed that leaves the counter as it is; C23 tells it
\* from the code
MapAccess_next_value_seed_keeps_count(self, t) ==
    IF self.elements < 1 THEN Access(Err("NoMapValue", self.input), FALSE, self.elements)
    ELSE LET v == deserialize(self.input, t)
         IN  Access(v, IsOk(v), self.elements)

MapAccess_next_value_seed(self, t) ==
    IF self.elements < 1 THEN Access(Err("NoMapValue", self.input), FALSE, self.elements)
    ELSE Returned(deserialize(self.input, t), self.elements)

\* the accessor after a step
After(a) == [input |-> a.r.input, elements |-> a.elements]

RECURSIVE seq_lt(_, _)
seq_lt(a, b) ==
    IF b = <<>> THEN FALSE
    ELSE IF a = <<>> THEN TRUE
    ELSE IF Head(a) # Head(b) THEN Head(a) < Head(b)
    ELSE seq_lt(Tail(a), Tail(b))

\* Ord of the key types used: integers and strings
key_lt(a, b) == IF a.k = "int" THEN a.v < b.v ELSE seq_lt(a.v, b.v)

\* BTreeMap::insert on the sorted sequence of pairs
map_insert(pairs, k, v) ==
    LET below == SelectSeq(pairs, LAMBDA p : key_lt(p[1], k))
        above == SelectSeq(pairs, LAMBDA p : key_lt(k, p[1]))
    IN  (below \o << <<k, v>> >>) \o above

RECURSIVE vec_visit_seq(_, _, _)
\* Vec<T>: while let Some(value) = seq.next_element()? { values.push(value) }
vec_visit_seq(seq, t, acc) ==
    LET e == SeqAccess_next_element_seed(seq, t)
    IN  IF ~IsOk(e.r) THEN e.r
        ELSE IF ~e.some THEN Ok(Val("seq", acc), e.r.input)
        ELSE vec_visit_seq(After(e), t, Append(acc, e.r.val))

RECURSIVE tuple_visit_seq(_, _, _)
\* tuples and tuple structs: one next_element()? for each position,
\* None there is Error::invalid_length
tuple_visit_seq(seq, ts, acc) ==
    IF ts = <<>> THEN Ok(Val("seq", acc), seq.input)
    ELSE LET e == SeqAccess_next_element_seed(seq, Head(ts))
         IN  IF ~IsOk(e.r) THEN e.r
             ELSE IF ~e.some THEN Err("Message: invalid length", e.r.input)
             ELSE tuple_visit_seq(After(e), Tail(ts), Append(acc, e.r.val))

RECURSIVE map_visit_map(_, _, _, _)
\* BTreeMap<K, V>: while let Some((k, v)) = map.next_entry()? { insert }
map_visit_map(map, kt, vt, acc) ==
    LET k == MapAccess_next_key_seed(map, kt)
        v == MapAccess_next_value_seed(After(k), vt)
    IN  IF ~IsOk(k.r) THEN k.r
        ELSE IF ~k.some THEN Ok(Val("map", acc), k.r.input)
        ELSE IF ~IsOk(v.r) THEN v.r
        ELSE map_visit_map(After(v), kt, vt, map_insert(acc, k.r.val, v.r.val))

\* the index of the name among names, 0 when it is none of them
IndexOf(names, name) ==
    IF \E i \in 1..Len(names) : names[i] = name
    THEN CHOOSE i \in 1..Len(names) : names[i] = name
    ELSE 0

\* a field the input did not give: None for an Option field, else an error
missing_field(t) == IF t.k = "option" THEN Val("none", <<>>) ELSE NoVal

RECURSIVE struct_visit_map(_, _, _)
\* the derived visitor of a record: keys are field identifiers, an unknown
\* key has its value skipped as IgnoredAny, a repeated one is an error
struct_visit_map(map, t, acc) ==
    LET k == MapAccess_next_key_seed(map, Prim("identifier"))
        i == IndexOf(t.names, k.r.val.v)
        v == MapAccess_next_value_seed(After(k),
                                       IF i = 0 THEN Prim("ignored_any") ELSE t.of[i])
        filled == [j \in 1..Len(t.of) |->
                     IF acc[j].k = "novalue" THEN missing_field(t.of[j]) ELSE acc[j]]
    IN  IF ~IsOk(k.r) THEN k.r
        ELSE IF ~k.some
        THEN IF \E j \in 1..Len(t.of) : filled[j].k = "novalue"
             THEN Err("Message: missing field", k.r.input)
             ELSE Ok(Val("struct", filled), k.r.input)
        ELSE IF i # 0 /\ acc[i].k # "novalue" THEN Err("Message: duplicate field", k.r.input)
        ELSE IF ~IsOk(v.r) THEN v.r
        ELSE struct_visit_map(After(v), t, IF i = 0 THEN acc ELSE [acc EXCEPT ![i] = v.r.val])

deserialize_seq(input, t) ==
    LET len == parse_block_header(input)
    IN  IF ~IsOk(len) THEN len
        ELSE vec_visit_seq(BlockData_new(len.input, len.val), t.of[1], <<>>)

deserialize_tuple(input, ts) ==
    LET len == parse_block_header(input)
    IN  IF ~IsOk(len) THEN len
        ELSE tuple_visit_seq(BlockData_new(len.input, len.val), ts, <<>>)

deserialize_tuple_struct(input, ts) == deserialize_tuple(input, ts)

\* a faulty parity test, len % 2 == 1, that misses the negative odd counts;
\* C9 tells it from the code
rem2_is_one(len) == len >= 0 /\ len % 2 = 1

\* i32 % 2 != 0: the remainder of a negative odd number is -1
rem2_nonzero(len) == IF len >= 0 THEN len % 2 # 0 ELSE (-(len + 1)) % 2 = 0

deserialize_map(input, t) ==
    LET len == parse_block_header(input)
    IN  IF ~IsOk(len) THEN len
        ELSE IF rem2_nonzero(len.val) THEN Err("ExpectedEvenLength", len.input)
        ELSE IF t.k = "map"
        THEN map_visit_map(BlockData_new(len.input, len.val), t.of[1], t.of[2], <<>>)
        ELSE struct_visit_map(BlockData_new(len.input, len.val), t,
                              [j \in 1..Len(t.of) |-> NoVal])

deserialize_struct(input, t) == deserialize_map(input, t)

Enum_new(input) == [input |-> input]

\* EnumAccess::variant_seed: the variant identifier, then the accessor itself
Enum_variant_seed(self) == deserialize(self.input, Prim("identifier"))

Enum_unit_variant(self) == Err("ExpectedString", self.input)

Enum_newtype_variant_seed(self, t) == deserialize(self.input, t)

Enum_tuple_variant(self, ts) == deserialize_tuple(self.input, ts)

Enum_struct_variant(self, t) == deserialize_struct(self.input, t)

Variant(idx, r) ==
    IF ~IsOk(r) THEN r
    ELSE Ok(Val("variant", <<idx, r.val.v>>), r.input)

VariantNames(t) == [i \in 1..Len(t.of) |-> t.of[i].name]

\* the derived visitor's visit_enum over the accessor Enum
visit_enum(self, t) ==
    LET name == Enum_variant_seed(self)
        idx == IndexOf(VariantNames(t), name.val.v)
        var == t.of[idx]
        access == Enum_new(name.input)
    IN  IF ~IsOk(name) THEN name
        ELSE IF idx = 0 THEN Err("Message: unknown variant", name.input)
        ELSE CASE var.k = "unit_variant" ->
                    LET u == Enum_unit_variant(access)
                    IN  IF ~IsOk(u) THEN u
                        ELSE Ok(Val("variant", <<idx, <<>>>>), u.input)
               [] var.k = "newtype_variant" ->
                    LET p == Enum_newtype_variant_seed(access, var.of[1])
                    IN  IF ~IsOk(p) THEN p
                        ELSE Ok(Val("variant", <<idx, p.val>>), p.input)
               [] var.k = "tuple_variant" ->
                    Variant(idx, Enum_tuple_variant(access, var.of))
               [] var.k = "struct_variant" ->
                    Variant(idx, Enum_struct_variant(access, var))

\* the derived visitor's visit_enum over String::into_deserializer(): the
\* string names the variant and only a unit variant can follow
visit_enum_string(name, input, t) ==
    LET idx == IndexOf(VariantNames(t), name)
    IN  IF idx = 0 THEN Err("Message: unknown variant", input)
        ELSE IF t.of[idx].k = "unit_variant"
        THEN Ok(Val("variant", <<idx, <<>>>>), input)
        ELSE Err("Message: invalid type: unit variant", input)

\* a faulty deserialize_enum that takes every count above 1 as name and
\* payload; C10 tells it from the code
deserialize_enum_at_least_2(input, t) ==
    LET len == parse_paren_header(input)
        name == parse_string(len.input)
    IN  IF ~IsOk(len) THEN len
        ELSE IF len.val = 1
        THEN IF ~IsOk(name) THEN name ELSE visit_enum_string(name.val, name.input, t)
        ELSE IF len.val >= 2 THEN visit_enum(Enum_new(len.input), t)
        ELSE Err("ExpectedEnum", len.input)

deserialize_enum(input, t) ==
    LET len == parse_paren_header(input)
        name == parse_string(len.input)
    IN  IF ~IsOk(len) THEN len
        ELSE IF len.val = 1
        THEN IF ~IsOk(name) THEN name ELSE visit_enum_string(name.val, name.input, t)
        ELSE IF len.val = 2 THEN visit_enum(Enum_new(len.input), t)
        ELSE Err("ExpectedEnum", len.input)

\* a faulty deserialize_option that takes 8 bytes for the none value; C11
\* tells it from the code
deserialize_option_takes_8(input0, t) ==
    LET input == parse_padding(input0)
        some == deserialize(input, t.of[1])
    IN  IF Len(input) < 1 THEN Panic("index out of bounds", input)
        ELSE IF input[1] = types_NONE
        THEN IF Len(input) < 4 THEN Panic("range start index out of range", input)
             ELSE Ok(Val("none", <<>>), From(input, 8))
        ELSE IF ~IsOk(some) THEN some
        ELSE Ok(Val("some", <<some.val>>), some.input)

deserialize_option(input0, t) ==
    LET input == parse_padding(input0)
        some == deserialize(input, t.of[1])
    IN  IF Len(input) < 1 THEN Panic("index out of bounds", input)
        ELSE IF input[1] = types_NONE
        THEN IF Len(input) < 4 THEN Panic("range start index out of range", input)
             ELSE Ok(Val("none", <<>>), From(input, 4))
        ELSE IF ~IsOk(some) THEN some
        ELSE Ok(Val("some", <<some.val>>), some.input)

\* the narrow integers: parse_integer then the range check
deserialize_narrow(input, lo, hi, name) ==
    LET v == parse_integer(input)
    IN  IF ~IsOk(v) THEN v
        ELSE IF v.val > hi \/ v.val < lo THEN Err("Message: " \o name \o " limit exceeded", v.input)
        ELSE Ok(Val("int", v.val), v.input)

deserialize_i8(input) == deserialize_narrow(input, -128, 127, "i8")

deserialize_i16(input) == deserialize_narrow(input, -32768, 32767, "i16")

\* a faulty deserialize_u8 that casts without the range check (v as u8); C12
\* tells it from the code
deserialize_u8_as_cast(input) ==
    LET v == parse_integer(input)
    IN  IF ~IsOk(v) THEN v ELSE Ok(Val("int", v.val % 256), v.input)

deserialize_u8(input) == deserialize_narrow(input, 0, 255, "u8")

deserialize_u16(input) == deserialize_narrow(input, 0, 65535, "u16")

deserialize_i32(input) ==
    LET v == parse_integer(input)
    IN  IF ~IsOk(v) THEN v ELSE Ok(Val("int", v.val), v.input)

deserialize_i64(input) ==
    LET v == parse_integer(input)
    IN  IF ~IsOk(v) THEN v ELSE Ok(Val("wide", i32_as_i64(v.val)), v.input)

deserialize_u32(input) ==
    LET v == parse_integer(input)
    IN  IF ~IsOk(v) THEN v
        ELSE IF v.val < 0 THEN Err("Message: u32 limit exceeded", v.input)
        ELSE Ok(Val("wide", i32_as_u32(v.val)), v.input)

\* u64::from_le_bytes(bytes.try_into().unwrap()): unwrap panics unless 8 bytes
\* a faulty deserialize_u64 that reads a wire integer, as serialize_u64 writes
\* one; C14 tells it from the code
deserialize_u64_as_integer(input) ==
    LET v == parse_integer(input)
    IN  IF ~IsOk(v) THEN v ELSE Ok(Val("wide", i32_as_i64(v.val)), v.input)

deserialize_u64(input) ==
    LET bytes == parse_binary(input)
        b == bytes.val
    IN  IF ~IsOk(bytes) THEN bytes
        ELSE IF Len(b) # 8 THEN Panic("unwrap on TryFromSliceError", bytes.input)
        ELSE Ok(Val("wide", <<b[1] + 256 * b[2], b[3] + 256 * b[4],
                               b[5] + 256 * b[6], b[7] + 256 * b[8]>>), bytes.input)

Wrap(kind, r) == IF ~IsOk(r) THEN r ELSE Ok(Val(kind, r.val), r.input)

deserialize_bool(input) == Wrap("bool", parse_logic(input))

deserialize_f64(input) == Wrap("f64", parse_float(input))

deserialize_char(input) == Wrap("char", parse_char(input))

deserialize_str(input) == Wrap("string", parse_str(input))

deserialize_string(input) == Wrap("string", parse_string(input))

deserialize_identifier(input) == deserialize_string(input)

deserialize_byte_buf(input) == Wrap("bytes", parse_binary_owned(input))

deserialize_unit(input) ==
    LET r == parse_none(input)
    IN  IF ~IsOk(r) THEN r ELSE Ok(Val("unit", <<>>), r.input)

deserialize_unit_struct(input) == deserialize_unit(input)

deserialize_newtype_struct(input, t) == Wrap("newtype", deserialize(input, t.of[1]))

deserialize_ignored_any(input) == Panic("not implemented: TODO", input)

deserialize(input, t) ==
    CASE t.k = "bool" -> deserialize_bool(input)
      [] t.k = "i8" -> deserialize_i8(input)
      [] t.k = "i16" -> deserialize_i16(input)
      [] t.k = "i32" -> deserialize_i32(input)
      [] t.k = "i64" -> deserialize_i64(input)
      [] t.k = "u8" -> deserialize_u8(input)
      [] t.k = "u16" -> deserialize_u16(input)
      [] t.k = "u32" -> deserialize_u32(input)
      [] t.k = "u64" -> deserialize_u64(input)
      [] t.k = "f64" -> deserialize_f64(input)
      [] t.k = "char" -> deserialize_char(input)
      [] t.k = "str" -> deserialize_str(input)
      [] t.k = "string" -> deserialize_string(input)
      [] t.k = "identifier" -> deserialize_identifier(input)
      [] t.k = "ignored_any" -> deserialize_ignored_any(input)
      [] t.k = "byte_buf" -> deserialize_byte_buf(input)
      [] t.k = "option" -> deserialize_option(input, t)
      [] t.k = "unit" -> deserialize_unit(input)
      [] t.k = "unit_struct" -> deserialize_unit_struct(input)
      [] t.k = "newtype_struct" -> deserialize_newtype_struct(input, t)
      [] t.k = "seq" -> deserialize_seq(input, t)
      [] t.k = "tuple" -> deserialize_tuple(input, t.of)
      [] t.k = "tuple_struct" -> deserialize_tuple_struct(input, t.of)
      [] t.k = "map" -> deserialize_map(input, t)
      [] t.k = "struct" -> deserialize_struct(input, t)
      [] t.k = "enum" -> deserialize_enum(input, t)

from_bytes(s, t) ==
    LET header == parse_header(s)
        \* if deserializer.input.is_empty() { Ok(t) } else { Err(TrailingBytes) }
        is_empty(r) ==
            IF ~IsOk(r) THEN r
            ELSE IF r.input = <<>> THEN r
            ELSE Err("TrailingBytes", r.input)
    IN  IF ~IsOk(header) THEN header
        ELSE is_empty(deserialize(header.input, t))

(***************************************************************************)
(* The host types and values the calls are made with.                      *)
(***************************************************************************)
Name_a == <<97>>
Name_b == <<98>>
Name_Unit == <<85, 110, 105, 116>>
Name_Newtype == <<78, 101, 119, 116, 121, 112, 101>>
Name_Tuple == <<84, 117, 112, 108, 101>>
Name_Struct == <<83, 116, 114, 117, 99, 116>>
Name_Text == <<84>>
Name_Opt == <<79>>
Name_List == <<76>>
Name_Dict == <<68>>
Name_Rec == <<82>>

Option(t) == Ty("option", <<>>, <<>>, <<t>>)
Vec(t) == Ty("seq", <<>>, <<>>, <<t>>)
Tuple(ts) == Ty("tuple", <<>>, <<>>, ts)
TupleStruct(ts) == Ty("tuple_struct", <<>>, <<>>, ts)
NewtypeStruct(t) == Ty("newtype_struct", <<>>, <<>>, <<t>>)
BTreeMap(kt, vt) == Ty("map", <<>>, <<>>, <<kt, vt>>)
Struct(names, ts) == Ty("struct", <<>>, names, ts)
Enum(variants) == Ty("enum", <<>>, <<>>, variants)
UnitVariant(name) == Ty("unit_variant", name, <<>>, <<>>)
NewtypeVariant(name, t) == Ty("newtype_variant", name, <<>>, <<t>>)
TupleVariant(name, ts) == Ty("tuple_variant", name, <<>>, ts)
StructVariant(name, names, ts) == Ty("struct_variant", name, names, ts)

\* struct WhatNot { a: f64, b: String } of the tests
WhatNot == Struct(<<Name_a, Name_b>>, <<Prim("f64"), Prim("string")>>)
\* a record with a sequence and an optional field
Bag == Struct(<<Name_a, Name_b>>, <<Vec(Prim("u8")), Option(Prim("u8"))>>)
\* enum E { Unit, Newtype(u32), Tuple(u32, u32), Struct { a: u32 } } of the tests
E == Enum(<<UnitVariant(Name_Unit), NewtypeVariant(Name_Newtype, Prim("u32")),
            TupleVariant(Name_Tuple, <<Prim("u32"), Prim("u32")>>),
            StructVariant(Name_Struct, <<Name_a>>, <<Prim("u32")>>)>>)
\* an enum whose newtype variants carry each kind of payload, and whose tuple
\* and struct variants carry containers
Payload == Enum(<<NewtypeVariant(Name_Text, Prim("string")),
                  NewtypeVariant(Name_Opt, Option(Prim("u8"))),
                  NewtypeVariant(Name_List, Vec(Prim("u8"))),
                  NewtypeVariant(Name_Dict, BTreeMap(Prim("string"), Prim("u8"))),
                  NewtypeVariant(Name_Rec, Struct(<<Name_a>>, <<Prim("u8")>>)),
                  TupleVariant(Name_Tuple, <<Vec(Prim("u8")), Prim("bool")>>),
                  StructVariant(Name_Struct, <<Name_a, Name_b>>,
                                <<Prim("bool"), Vec(Prim("u8"))>>)>>)

Types ==
    {Prim(k) : k \in {"bool", "i8", "i16", "i32", "i64", "u8", "u16", "u32", "u64",
                      "f64", "char", "str", "string", "byte_buf", "unit",
                      "unit_struct"}}
    \cup {Option(Prim("i32")), Option(Prim("unit")), Option(Vec(Prim("u8"))),
          Option(Option(Prim("u8"))), Option(Prim("unit_struct")),
          NewtypeStruct(Prim("i32")), NewtypeStruct(Vec(Prim("u8"))),
          Vec(Prim("u8")), Vec(Prim("string")), Vec(Vec(Prim("u8"))),
          Tuple(<<Prim("i8"), Prim("string")>>),
          Tuple(<<Vec(Prim("u8")), Prim("bool")>>),
          Tuple(<<Tuple(<<Prim("u8"), Prim("u8")>>), Prim("u8")>>),
          TupleStruct(<<Prim("u8"), Prim("u8"), Prim("u8")>>),
          BTreeMap(Prim("string"), Prim("u8")),
          BTreeMap(Prim("u8"), Vec(Prim("u8"))),
          WhatNot, Bag, E, Payload}

\* "a" repeated n times
Ascii(n) == [i \in 1..n |-> 97]

W16(lo, hi) == <<lo, hi>>
W64(a, b, c, d) == <<a, b, c, d>>

\* the values of a scalar type; inside a container (nested) a few of them
Atoms(t, nested) ==
    CASE t.k = "bool" -> {Val("bool", b) : b \in BOOLEAN}
      [] t.k = "i8" -> {Val("int", n) : n \in {-128, -2, 127}}
      [] t.k = "i16" -> {Val("int", n) : n \in {-32768, 299, 32767}}
      [] t.k = "i32" -> {Val("int", n) : n \in
            IF nested THEN {123}
            ELSE {I32_MIN, -32769, -129, -2, -1, 0, 123, 128, 256, 32768, 65536, I32_MAX}}
      [] t.k = "u8" -> {Val("int", n) : n \in IF nested THEN {0, 255} ELSE {0, 5, 255}}
      [] t.k = "u16" -> {Val("int", n) : n \in {0, 65535}}
      [] t.k = "u32" -> {Val("wide", w) : w \in
            IF nested THEN {W16(1, 0), W16(2, 0)}
            ELSE {W16(0, 0), W16(1130, 1), W16(65535, 32767), W16(0, 32768),
                  W16(65535, 65535)}}
      [] t.k = "i64" -> {Val("wide", w) : w \in
            {W64(0, 0, 0, 0), W64(65534, 65535, 65535, 65535),
             W64(65535, 32767, 0, 0), W64(0, 32768, 0, 0),
             W64(0, 32768, 65535, 65535), W64(65535, 32767, 65535, 65535),
             W64(65535, 65535, 65535, 32767), W64(0, 0, 0, 32768)}}
      [] t.k = "u64" -> {Val("wide", w) : w \in
            {W64(0, 0, 0, 0), W64(1, 0, 0, 0), W64(65535, 32767, 0, 0),
             W64(0, 32768, 0, 0), W64(0, 0, 1, 0), W64(65534, 65535, 65535, 65535)}}
      [] t.k = "f64" -> {Val("f64", b) : b \in
            IF nested THEN {<<0, 0, 0, 0, 0, 0, 41, 64>>}
            ELSE {<<0, 0, 0, 0, 0, 0, 41, 64>>, <<102, 102, 102, 102, 102, 6, 89, 64>>,
                  <<145, 237, 124, 191, 163, 215, 253, 64>>,
                  <<0, 0, 0, 0, 0, 0, 0, 0>>, <<1, 0, 0, 0, 0, 0, 248, 127>>}}
      [] t.k = "char" -> {Val("char", c) : c \in {0, 97, 261, 128150}}
      [] t.k \in {"str", "string"} -> {Val("string", x) : x \in
            IF nested THEN {Ascii(1), <<261>>}
            ELSE {Ascii(n) : n \in 0..MaxStrLen}
                 \cup {<<261>>, <<128150>>, <<97, 261>>, <<0>>}}
      [] t.k = "byte_buf" -> {Val("bytes", SubSeq(<<202, 254, 0, 7, 9, 1, 2, 3>>, 1, n)) :
                                 n \in (0..MaxBlobLen) \cup (IF nested THEN {} ELSE {8})}
      [] t.k \in {"unit", "unit_struct"} -> {Val("unit", <<>>)}

RECURSIVE ValuesOf(_, _)
RECURSIVE Product(_)
RECURSIVE Entries(_, _, _)

\* the sequences with one value of each type of ts
Product(ts) ==
    IF ts = <<>> THEN {<<>>}
    ELSE {<<x>> \o rest : x \in ValuesOf(Head(ts), TRUE), rest \in Product(Tail(ts))}

\* the maps of n entries: key-sorted sequences of pairs without repeated keys
Entries(kt, vt, n) ==
    IF n = 0 THEN {<<>>}
    ELSE {Append(m, <<k, v>>) : m \in Entries(kt, vt, n - 1),
                                k \in ValuesOf(kt, TRUE), v \in ValuesOf(vt, TRUE)}

Sorted(m) == \A i \in 1..(Len(m) - 1) : key_lt(m[i][1], m[i + 1][1])

ValuesOf(t, nested) ==
    CASE t.k = "option" ->
            {Val("none", <<>>)} \cup {Val("some", <<x>>) : x \in ValuesOf(t.of[1], TRUE)}
      [] t.k = "newtype_struct" -> {Val("newtype", x) : x \in ValuesOf(t.of[1], nested)}
      [] t.k = "seq" ->
            {Val("seq", x) : x \in UNION {[1..n -> ValuesOf(t.of[1], TRUE)] :
                                            n \in 0..(IF nested THEN 1 ELSE MaxSeqLen)}}
      [] t.k \in {"tuple", "tuple_struct"} -> {Val("seq", x) : x \in Product(t.of)}
      [] t.k = "map" ->
            {Val("map", m) : m \in
                {x \in UNION {Entries(t.of[1], t.of[2], n) :
                                 n \in 0..(IF nested THEN 1 ELSE MaxSeqLen)} : Sorted(x)}}
      [] t.k = "struct" -> {Val("struct", x) : x \in Product(t.of)}
      [] t.k = "enum" ->
            UNION {{Val("variant", <<i, p>>) : p \in
                        CASE t.of[i].k = "unit_variant" -> {<<>>}
                          [] t.of[i].k = "newtype_variant" -> ValuesOf(t.of[i].of[1], TRUE)
                          [] OTHER -> Product(t.of[i].of)} :
                   i \in 1..Len(t.of)}
      [] OTHER -> Atoms(t, nested)

(***************************************************************************)
(* The state machine: one call of to_bytes on a host value, then the bytes *)
(* travel (and may arrive damaged: cut short, followed by more bytes, or   *)
(* with a byte or a 32-bit word changed), then one call of from_bytes.     *)
(***************************************************************************)
VARIABLES
    pc,      \* "idle", "encoded" (to_bytes returned), "decoded" (from_bytes returned)
    ty,      \* the host type T of to_bytes::<T>
    value,   \* the host value given to to_bytes
    enc,     \* what to_bytes returned: [ok, err, bytes]
    wire,    \* the bytes as they reach from_bytes
    tamper,  \* what happened to the bytes on the way: [kind, pos, b]
    dty,     \* the host type T of from_bytes::<T>
    res,     \* what from_bytes returned: [st, err, val, input]
    cursor,  \* the deserializer's self.input between two calls made on it
    block,   \* the BlockData a visitor holds: [kind, elements, count, calls, expect]
    last     \* the last call: [op, st, err, some, val, cursor, elements]

vars == <<pc, ty, value, enc, wire, tamper, dty, res, cursor, block, last>>

\* what to_bytes and from_bytes as whole calls read and write
buffers == <<pc, ty, value, enc, wire, tamper, dty, res>>
\* what the calls a visitor makes one at a time read and write
callvars == <<cursor, block, last>>

NoBlock == [kind |-> "none", elements |-> 0, count |-> 0, calls |-> 0, expect |-> "none"]
NoCall == [op |-> "none", st |-> "none", err |-> "", some |-> FALSE,
           val |-> [k |-> "novalue", v |-> <<>>], cursor |-> <<>>, elements |-> 0]

Untouched == [kind |-> "none", pos |-> 0, b |-> 0]
NoEnc == [ok |-> FALSE, err |-> "", bytes |-> <<>>]
NoRes == [st |-> "none", err |-> "", val |-> NoVal, input |-> <<>>]

\* bytes a damaged buffer may carry
PatchBytes == {0, 8, 255}
PatchWords == {-3, -1, 0, 1, 2, 3}
TrailBytes == {0, 255}
ShortLens == {0, 8, 15}

Init ==
    /\ pc = "idle"
    /\ ty = Prim("unit")
    /\ value = NoVal
    /\ enc = NoEnc
    /\ wire = <<>>
    /\ tamper = Untouched
    /\ dty = Prim("unit")
    /\ res = NoRes
    /\ cursor = <<>>
    /\ block = NoBlock
    /\ last = NoCall

\* to_bytes(&v) for a value v of type t
Encode(t, v) ==
    /\ pc = "idle"
    /\ pc' = "encoded"
    /\ ty' = t
    /\ value' = v
    /\ enc' = to_bytes(t, v)
    /\ wire' = enc'.bytes
    /\ UNCHANGED <<tamper, dty, res>>
    /\ UNCHANGED callvars

CanTamper == pc = "encoded" /\ enc.ok /\ tamper = Untouched

\* the last k bytes are lost
Truncate(k) ==
    /\ CanTamper
    /\ k <= Len(wire)
    /\ wire' = SubSeq(wire, 1, Len(wire) - k)
    /\ tamper' = [kind |-> "truncate", pos |-> Len(wire) - k, b |-> 0]
    /\ UNCHANGED <<pc, ty, value, enc, dty, res>>
    /\ UNCHANGED callvars

\* only the first n bytes arrive, fewer than the envelope has
Shorten(n) ==
    /\ CanTamper
    /\ wire' = SubSeq(wire, 1, n)
    /\ tamper' = [kind |-> "shorten", pos |-> n, b |-> 0]
    /\ UNCHANGED <<pc, ty, value, enc, dty, res>>
    /\ UNCHANGED callvars

\* n bytes b follow the encoded value
AppendBytes(n, b) ==
    /\ CanTamper
    /\ wire' = wire \o [i \in 1..n |-> b]
    /\ tamper' = [kind |-> "append", pos |-> n, b |-> b]
    /\ UNCHANGED <<pc, ty, value, enc, dty, res>>
    /\ UNCHANGED callvars

\* the byte at position pos (from 1) is replaced by b
PatchByte(pos, b) ==
    /\ CanTamper
    /\ pos <= Len(wire)
    /\ wire[pos] # b
    /\ wire' = [wire EXCEPT ![pos] = b]
    /\ tamper' = [kind |-> "byte", pos |-> pos, b |-> b]
    /\ UNCHANGED <<pc, ty, value, enc, dty, res>>
    /\ UNCHANGED callvars

\* the 32-bit word number w (from 0) is replaced by the little-endian v
PatchWord(w, v) ==
    /\ CanTamper
    /\ 4 * w + 4 <= Len(wire)
    /\ SubSeq(wire, 4 * w + 1, 4 * w + 4) # to_le_bytes(v)
    /\ wire' = (SubSeq(wire, 1, 4 * w) \o to_le_bytes(v))
                \o SubSeq(wire, 4 * w + 5, Len(wire))
    /\ tamper' = [kind |-> "word", pos |-> w, b |-> v]
    /\ UNCHANGED <<pc, ty, value, enc, dty, res>>
    /\ UNCHANGED callvars

RECURSIVE TagOffsets(_, _)
\* the parts of a container value in the order to_bytes writes them, each
\* with its type
Children(t, v) ==
    CASE t.k = "seq" -> [i \in 1..Len(v.v) |-> <<t.of[1], v.v[i]>>]
      [] t.k = "map" ->
            [i \in 1..(2 * Len(v.v)) |->
                <<t.of[2 - (i % 2)], v.v[(i + 1) \div 2][2 - (i % 2)]>>]
      [] t.k \in {"tuple", "tuple_struct"} -> [i \in 1..Len(v.v) |-> <<t.of[i], v.v[i]>>]
      [] t.k = "struct" ->
            [i \in 1..(2 * Len(v.v)) |->
                IF i % 2 = 1 THEN <<Prim("str"), Val("string", t.names[(i + 1) \div 2])>>
                ELSE <<t.of[i \div 2], v.v[i \div 2]>>]
      [] t.k = "enum" ->
            (LET var == t.of[v.v[1]]
                 name == <<Prim("str"), Val("string", var.name)>>
             IN  CASE var.k = "unit_variant" -> <<name>>
                   [] var.k = "newtype_variant" -> <<name, <<var.of[1], v.v[2]>>>>
                   [] var.k = "tuple_variant" ->
                         <<name, <<Tuple(var.of), Val("seq", v.v[2])>>>>
                   [] var.k = "struct_variant" ->
                         <<name, <<Struct(var.names, var.of), Val("struct", v.v[2])>>>>)
      [] OTHER -> <<>>

\* a newtype variant whose payload ends with prepend_block_header: the block
\* header of the payload stands first, before the paren header of the variant
HeaderFirst(t, v) ==
    /\ t.k = "enum"
    /\ t.of[v.v[1]].k = "newtype_variant"
    /\ t.of[v.v[1]].of[1].k \in {"seq", "map"}

\* where in the bytes of a value the tag bytes of the value and of its parts
\* stand (offsets from 0); Some(x) and a newtype struct begin where x begins
TagOffsets(t, v) ==
    IF t.k = "option" /\ v.k = "some" THEN TagOffsets(t.of[1], v.v[1])
    ELSE IF t.k = "newtype_struct" THEN TagOffsets(t.of[1], v.v)
    ELSE LET first == HeaderFirst(t, v)
             \* the parts, and where the first of them stands
             ch == IF first
                   THEN <<Children(t, v)[1]>> \o Children(t.of[v.v[1]].of[1], v.v[2])
                   ELSE Children(t, v)
             base == IF first THEN 24 ELSE 12
             len == [i \in 1..Len(ch) |->
                        Len(serialize(Serializer_new_with, ch[i][1], ch[i][2]).output)]
             start == [i \in 1..Len(ch) |->
                          base + Len(Flatten([j \in 1..(i - 1) |-> Zeros(len[j])]))]
         IN  (IF first THEN {0, 12} ELSE {0})
             \cup UNION {{start[i] + o : o \in TagOffsets(ch[i][1], ch[i][2])} :
                            i \in 1..Len(ch)}

\* n zero bytes arrive before the tag byte that stands at offset off of the
\* payload
InsertZeros(off, n) ==
    /\ CanTamper
    /\ wire' = (SubSeq(wire, 1, 16 + off) \o Zeros(n)) \o From(wire, 16 + off)
    /\ tamper' = [kind |-> "insert", pos |-> off, b |-> n]
    /\ UNCHANGED <<pc, ty, value, enc, dty, res>>
    /\ UNCHANGED callvars

IntegerKinds == {"i8", "i16", "i32", "i64", "u8", "u16", "u32", "u64"}

\* the types a buffer holding a value of type t is decoded as: its own type,
\* and for an integer every integer type, for a byte buffer also u64
DecodeTypes(t) ==
    IF t.k \in IntegerKinds THEN {Prim(k) : k \in IntegerKinds}
    ELSE IF t.k = "byte_buf" THEN {t, Prim("u64")}
    ELSE {t}

\* from_bytes::<t>(wire)
Decode(t) ==
    /\ pc = "encoded"
    /\ enc.ok
    /\ pc' = "decoded"
    /\ dty' = t
    /\ res' = from_bytes(wire, t)
    /\ UNCHANGED <<ty, value, enc, wire, tamper>>
    /\ UNCHANGED callvars

\* the next pair of calls
Reset ==
    /\ pc = "decoded" \/ (pc = "encoded" /\ ~enc.ok)
    /\ pc' = "idle"
    /\ ty' = Prim("unit")
    /\ value' = NoVal
    /\ enc' = NoEnc
    /\ wire' = <<>>
    /\ tamper' = Untouched
    /\ dty' = Prim("unit")
    /\ res' = NoRes
    /\ UNCHANGED callvars

Next ==
    \/ \E t \in Types : \E v \in ValuesOf(t, FALSE) : Encode(t, v)
    \/ \E k \in 1..MaxCut : Truncate(k)
    \/ \E n \in ShortLens : Shorten(n)
    \/ \E n \in 1..MaxTrailing : \E b \in TrailBytes : AppendBytes(n, b)
    \/ \E pos \in 1..MaxPatchPos : \E b \in PatchBytes : PatchByte(pos, b)
    \/ \E w \in 0..MaxPatchWord : \E v \in PatchWords : PatchWord(w, v)
    \/ \E off \in (IF CanTamper THEN TagOffsets(ty, value) ELSE {}) :
          \E n \in {1, MaxPad} : InsertZeros(off, n)
    \/ \E t \in DecodeTypes(ty) : Decode(t)
    \/ Reset

Spec == Init /\ [][Next]_vars

(***************************************************************************)
(* The calls one at a time.  from_bytes has taken the envelope off a       *)
(* buffer; what follows is what a Deserialize impl or a visitor may do:    *)
(* call the parse_* methods on the deserializer, or enter a block through  *)
(* deserialize_seq / deserialize_map and ask the BlockData for the next    *)
(* element, key or value.  A panic ends it.                                *)
(***************************************************************************)
MaxCalls == 4

CallTypes ==
    {Prim(k) : k \in {"bool", "i32", "f64", "char", "string", "byte_buf", "unit"}}
    \cup {Option(Prim("i32")), Vec(Prim("u8")), Vec(Vec(Prim("u8"))),
          Tuple(<<Prim("i8"), Prim("string")>>),
          Tuple(<<Tuple(<<Prim("u8"), Prim("u8")>>), Prim("u8")>>),
          BTreeMap(Prim("string"), Prim("u8")),
          BTreeMap(Prim("u8"), Vec(Prim("u8"))),
          WhatNot, Bag}

\* element counts a block header may arrive with
Counts == {-2, -1, 0, 1, 2, 3, 4}

HasBlock(t) == t.k \in {"seq", "tuple", "tuple_struct", "map", "struct"}

\* the buffer with the element count of the top block header replaced
WithCount(bytes, c) == (SubSeq(bytes, 1, 24) \o to_le_bytes(c)) \o From(bytes, 28)

\* the buffer with two zero bytes before the tag byte of the value
Padded(bytes) == (SubSeq(bytes, 1, 16) \o Zeros(2)) \o From(bytes, 16)

\* the buffers from_bytes::<t> is given for the bytes to_bytes wrote: as they
\* are, after two zero bytes, or with another element count
BuffersOf(t, bytes) ==
    {bytes, Padded(bytes)}
    \cup (IF HasBlock(t) THEN {WithCount(bytes, c) : c \in Counts} ELSE {})

\* the types a buffer holding a value of type t is asked for: its own, and
\* for two of the sequences one whose elements are of another type
AskedTypes(t) ==
    {t} \cup (IF t = Vec(Prim("u8")) THEN {Vec(Prim("i8"))} ELSE {})
        \cup (IF t = Tuple(<<Prim("i8"), Prim("string")>>) THEN {Vec(Prim("u8"))} ELSE {})

InitCalls ==
    \E t \in CallTypes : \E v \in ValuesOf(t, FALSE) : \E e \in {to_bytes(t, v)} :
    \E b \in BuffersOf(t, e.bytes) : \E asked \in AskedTypes(t) :
        /\ pc = "encoded"
        /\ ty = t
        /\ value = v
        /\ enc = e
        /\ wire = b
        /\ tamper = IF b = e.bytes THEN Untouched
                    ELSE IF b = Padded(e.bytes)
                    THEN [kind |-> "insert", pos |-> 0, b |-> 2]
                    ELSE [kind |-> "word", pos |-> 6, b |-> from_le_bytes(SubSeq(b, 25, 28))]
        /\ dty = asked
        /\ res = NoRes
        /\ cursor = parse_header(b).input
        /\ block = NoBlock
        /\ last = NoCall

\* the record of a call that returned r, made in the current state
Call(op, r, some) ==
    [op |-> op, st |-> r.st, err |-> r.err, some |-> some, val |-> r.val,
     cursor |-> cursor, elements |-> block.elements]

ParseOps ==
    {"parse_padding", "parse_integer", "parse_block_header", "parse_paren_header",
     "parse_logic", "parse_float", "parse_str", "parse_string", "parse_char",
     "parse_binary", "parse_none"}

Primitive(op, input) ==
    CASE op = "parse_padding" -> Ok(<<>>, parse_padding(input))
      [] op = "parse_integer" -> parse_integer(input)
      [] op = "parse_block_header" -> parse_block_header(input)
      [] op = "parse_paren_header" -> parse_paren_header(input)
      [] op = "parse_logic" -> parse_logic(input)
      [] op = "parse_float" -> parse_float(input)
      [] op = "parse_str" -> parse_str(input)
      [] op = "parse_string" -> parse_string(input)
      [] op = "parse_char" -> parse_char(input)
      [] op = "parse_binary" -> parse_binary(input)
      [] op = "parse_none" -> parse_none(input)

\* self.parse_*() on the deserializer
Parse(op) ==
    /\ block.kind = "none"
    /\ last.st # "panic"
    /\ \E r \in {Primitive(op, cursor)} :
           /\ cursor' = r.input
           /\ last' = Call(op, r, FALSE)
    /\ UNCHANGED block
    /\ UNCHANGED buffers

\* deserialize_seq / deserialize_tuple up to the call of the visitor
EnterSeq ==
    /\ dty.k \in {"seq", "tuple", "tuple_struct"}
    /\ block.kind = "none"
    /\ last.op = "none"
    /\ LET len == parse_block_header(cursor)
       IN  /\ cursor' = len.input
           /\ last' = Call("deserialize_seq", len, FALSE)
           /\ block' = IF IsOk(len)
                       THEN [kind |-> "seq", elements |-> BlockData_new(len.input, len.val).elements,
                             count |-> len.val, calls |-> 0, expect |-> "element"]
                       ELSE block
    /\ UNCHANGED buffers

\* deserialize_map / deserialize_struct up to the call of the visitor
EnterMap ==
    /\ dty.k \in {"map", "struct"}
    /\ block.kind = "none"
    /\ last.op = "none"
    /\ LET len == parse_block_header(cursor)
           even == IsOk(len) /\ ~rem2_nonzero(len.val)
       IN  /\ cursor' = len.input
           /\ last' = Call("deserialize_map",
                           IF IsOk(len) /\ ~even THEN Err("ExpectedEvenLength", len.input)
                           ELSE len, FALSE)
           /\ block' = IF even
                       THEN [kind |-> "map", elements |-> BlockData_new(len.input, len.val).elements,
                             count |-> len.val, calls |-> 0, expect |-> "key"]
                       ELSE block
    /\ UNCHANGED buffers

\* the type the visitor of dty asks the next element for
ElementType == IF dty.k = "seq" THEN dty.of[1] ELSE dty.of[block.calls + 1]

\* seq.next_element(): a Vec visitor calls it until None (here it may go on
\* calling), a tuple visitor once for each position
NextElement ==
    /\ block.kind = "seq"
    /\ last.st = "ok"
    /\ block.calls < (IF dty.k = "seq" THEN MaxCalls ELSE Len(dty.of))
    /\ \E e \in {SeqAccess_next_element_seed(BlockData_new(cursor, block.elements),
                                              ElementType)} :
           /\ cursor' = e.r.input
           /\ block' = [block EXCEPT !.elements = e.elements, !.calls = @ + 1]
           /\ last' = Call("next_element", e.r, e.some)
    /\ UNCHANGED buffers

KeyType == IF dty.k = "map" THEN dty.of[1] ELSE Prim("identifier")

\* the type of the value that follows the key just returned
ValueType ==
    IF dty.k = "map" THEN dty.of[2]
    ELSE IF IndexOf(dty.names, last.val.v) = 0 THEN Prim("ignored_any")
    ELSE dty.of[IndexOf(dty.names, last.val.v)]

\* map.next_key(): the visitor stops at None
NextKey ==
    /\ block.kind = "map"
    /\ block.expect = "key"
    /\ last.st = "ok"
    /\ \E k \in {MapAccess_next_key_seed(BlockData_new(cursor, block.elements), KeyType)} :
           /\ cursor' = k.r.input
           /\ block' = [block EXCEPT !.elements = k.elements, !.calls = @ + 1,
                                     !.expect = IF k.some THEN "value" ELSE "done"]
           /\ last' = Call("next_key", k.r, k.some)
    /\ UNCHANGED buffers

\* map.next_value(), after a key
NextValue ==
    /\ block.kind = "map"
    /\ block.expect = "value"
    /\ last.st = "ok"
    /\ \E v \in {MapAccess_next_value_seed(BlockData_new(cursor, block.elements),
                                            ValueType)} :
           /\ cursor' = v.r.input
           /\ block' = [block EXCEPT !.elements = v.elements, !.calls = @ + 1,
                                     !.expect = "key"]
           /\ last' = Call("next_value", v.r, v.some)
    /\ UNCHANGED buffers

\* the calls on the deserializer and on the BlockData of a sequence
NextCalls ==
    \/ \E op \in ParseOps : Parse(op)
    \/ EnterSeq
    \/ NextElement

SpecCalls == InitCalls /\ [][NextCalls]_vars

\* the calls of the visitor of a map or of a record
InitPairs == InitCalls /\ dty.k \in {"map", "struct"}

NextPairs ==
    \/ EnterMap
    \/ NextKey
    \/ NextValue

SpecPairs == InitPairs /\ [][NextPairs]_vars

(***************************************************************************)
(* What the properties below speak of.                                     *)
(***************************************************************************)
ValEq(a, b) == a.k = b.k /\ a = b

Encoded == pc \in {"encoded", "decoded"} /\ enc.ok
Decoded == pc = "decoded"
\* the bytes after the 16-byte envelope
Payload_of(bytes) == From(bytes, 16)
\* the bytes the encoder emits for a value on its own
Emitted(t, v) == serialize(Serializer_new_with, t, v).output
\* a 12-byte container header as it stands on the wire
WireHeader(tag, count) == <<tag, 0, 0, 0, 0, 0, 0, 0>> \o to_le_bytes(count)
\* a string as it stands on the wire
WireString(x) == Emitted(Prim("string"), Val("string", x))

Magic == <<82, 69, 68, 66, 73, 78>>
EnvelopeMatches(b) ==
    /\ Len(b) >= 16
    /\ SubSeq(b, 1, 6) = Magic
    /\ b[7] = 2
    /\ SubSeq(b, 9, 12) = <<1, 0, 0, 0>>

\* the payload as the decoder meets it: after the zero bytes before the tag
Front == parse_padding(Payload_of(wire))
\* the payload begins with a 12-byte container header of the given tag
FrontIsHeader(tag) == Len(Front) >= 12 /\ SubSeq(Front, 1, 4) = <<tag, 0, 0, 0>>
FrontCount == from_le_bytes(SubSeq(Front, 9, 12))
AfterFrontHeader == From(Front, 12)

(***************************************************************************)
(* C1: round trip.  to_bytes succeeds on every supported value (a wide     *)
(* integer beyond 32 bits set aside, which the wire format does not hold), *)
(* and from_bytes of the untouched output, at the same type, yields the    *)
(* value.                                                                  *)
(***************************************************************************)
C1_RoundTrip ==
    /\ (pc = "encoded" /\ ty.k \notin {"u32", "i64", "u64"} => enc.ok)
    /\ (Decoded /\ tamper = Untouched /\ dty = ty
          => IsOk(res) /\ ValEq(res.val, value))

(***************************************************************************)
(* C2: envelope validation on decode.  Whenever the 16-byte prefix does    *)
(* not carry the magic, the version 2 and the record count 1, from_bytes   *)
(* returns an error (here on inputs that hold the 16 bytes).               *)
(***************************************************************************)
C2_EnvelopeValidated ==
    Decoded /\ Len(wire) >= 16 /\ ~EnvelopeMatches(wire) => res.st = "err"

(***************************************************************************)
(* C3: trailing data.  When bytes of any value follow the encoding of the  *)
(* one top-level value, from_bytes returns TrailingBytes.                  *)
(***************************************************************************)
C3_TrailingRejected ==
    Decoded /\ tamper.kind = "append" /\ dty = ty /\ IsOk(from_bytes(enc.bytes, ty))
        => res.st = "err" /\ res.err = "TrailingBytes"

(***************************************************************************)
(* C4: no out-of-bounds access.  from_bytes returns Ok or Err on every     *)
(* input and never aborts.                                                 *)
(***************************************************************************)
C4_NeverPanics == Decoded => res.st \in {"ok", "err"}

(***************************************************************************)
(* C5: reference values.  A string or binary whose tag word has bit 0x08   *)
(* of its third byte set makes from_bytes return an error value; it        *)
(* neither yields a value nor aborts.                                      *)
(***************************************************************************)
FrontIsReference ==
    /\ Len(Front) >= 12
    /\ \/ Front[1] = types_STRING /\ dty.k \in {"str", "string"}
       \/ Front[1] = types_BINARY /\ dty.k = "byte_buf"
    /\ refer_flag(Front[3])

C5_ReferenceIsError ==
    Decoded /\ Len(wire) >= 16 /\ FrontIsReference
        => res.st = "err"

(***************************************************************************)
(* C6: envelope on encode.  Every successful to_bytes output is the magic  *)
(* "REDBIN", version 2, flags 0, record count 1 and the payload length     *)
(* (total length - 16), all little-endian, followed by the bytes the       *)
(* serializer emits for the one value.                                     *)
(***************************************************************************)
C6_EnvelopeOnEncode ==
    Encoded =>
        /\ Len(enc.bytes) >= 16
        /\ SubSeq(enc.bytes, 1, 6) = Magic
        /\ enc.bytes[7] = 2
        /\ enc.bytes[8] = 0
        /\ SubSeq(enc.bytes, 9, 12) = <<1, 0, 0, 0>>
        /\ from_le_bytes(SubSeq(enc.bytes, 13, 16)) = Len(enc.bytes) - 16
        /\ Payload_of(enc.bytes) = Emitted(ty, value)

C6_Witness ==
    /\ pc = "encoded" /\ enc.ok
    /\ ty = WhatNot
    /\ from_le_bytes(SubSeq(enc.bytes, 13, 16)) = 72

(***************************************************************************)
(* C7: unit and newtype variants.  A newtype variant with any payload p is *)
(* emitted as a paren header of count 2, the variant name as a string, and *)
(* then exactly the bytes emitted for p on its own; a unit variant as a    *)
(* paren header of count 1 and the name.                                   *)
(***************************************************************************)
IsVariant(kind) == ty.k = "enum" /\ ty.of[value.v[1]].k = kind
TheVariant == ty.of[value.v[1]]

C7_NewtypeVariantLayout ==
    /\ Encoded /\ IsVariant("newtype_variant")
          => Payload_of(enc.bytes)
               = (WireHeader(types_PAREN, 2) \o WireString(TheVariant.name))
                 \o Emitted(TheVariant.of[1], value.v[2])
    /\ Encoded /\ IsVariant("unit_variant")
          => Payload_of(enc.bytes)
               = WireHeader(types_PAREN, 1) \o WireString(TheVariant.name)

(***************************************************************************)
(* C8: tuple and struct variants.  A tuple variant with n fields is a      *)
(* paren of count 2 holding the variant name and a block of count n with   *)
(* the fields' encodings in order; a struct variant is the same paren with *)
(* a block of count 2n holding field name / field value pairs in           *)
(* declaration order.                                                      *)
(***************************************************************************)
FieldsOnWire(var, fields) ==
    Flatten([i \in 1..Len(fields) |->
                (IF var.k = "struct_variant" THEN WireString(var.names[i]) ELSE <<>>)
                \o Emitted(var.of[i], fields[i])])

C8_TupleStructVariantLayout ==
    /\ Encoded /\ IsVariant("tuple_variant")
          => Payload_of(enc.bytes)
               = ((WireHeader(types_PAREN, 2) \o WireString(TheVariant.name))
                  \o WireHeader(types_BLOCK, Len(TheVariant.of)))
                 \o FieldsOnWire(TheVariant, value.v[2])
    /\ Encoded /\ IsVariant("struct_variant")
          => Payload_of(enc.bytes)
               = ((WireHeader(types_PAREN, 2) \o WireString(TheVariant.name))
                  \o WireHeader(types_BLOCK, 2 * Len(TheVariant.of)))
                 \o FieldsOnWire(TheVariant, value.v[2])

C8_Witness ==
    /\ pc = "encoded" /\ enc.ok
    /\ ty = Payload /\ IsVariant("struct_variant")
    /\ Len(value.v[2][2].v) = 1

(***************************************************************************)
(* C9: map parity.  Decoding as a map or record a block whose count is odd *)
(* (positive or negative) fails with ExpectedEvenLength right after the    *)
(* 12-byte header: the cursor stands at the first byte after the header.   *)
(***************************************************************************)
Odd(n) == n % 2 = 1

C9_MapParity ==
    Decoded /\ Len(wire) >= 16 /\ dty.k \in {"map", "struct"}
            /\ FrontIsHeader(types_BLOCK) /\ Odd(FrontCount)
        => /\ res.st = "err"
           /\ res.err = "ExpectedEvenLength"
           /\ res.input = AfterFrontHeader

C9_Witness ==
    /\ Decoded /\ dty.k = "map" /\ Len(wire) >= 16
    /\ FrontIsHeader(types_BLOCK) /\ FrontCount = -3
    /\ Len(AfterFrontHeader) > 0
    /\ res.err = "ExpectedEvenLength"

(***************************************************************************)
(* C10: enum arity.  Decoding an enum from a paren of count other than 1   *)
(* or 2 fails with ExpectedEnum and decodes no element; count 1 takes the  *)
(* sole string as the name of a unit variant; count 2 reads the name and   *)
(* hands what follows to the variant accessor.                             *)
(***************************************************************************)
\* the variant name read after the paren header, and the variant it names
FrontName == parse_string(AfterFrontHeader)
FrontIdx == IndexOf(VariantNames(dty), FrontName.val)

C10_EnumArity ==
    Decoded /\ Len(wire) >= 16 /\ dty.k = "enum" /\ FrontIsHeader(types_PAREN) =>
        /\ FrontCount \notin {1, 2}
             => res.st = "err" /\ res.err = "ExpectedEnum" /\ res.input = AfterFrontHeader
        /\ FrontCount \in {1, 2} => res.err # "ExpectedEnum"
        /\ FrontCount \in {1, 2} /\ IsOk(FrontName) /\ IsOk(res)
             => res.val.k = "variant" /\ res.val.v[1] = FrontIdx
        /\ FrontCount = 1 /\ IsOk(FrontName)
             => IF FrontIdx # 0 /\ dty.of[FrontIdx].k = "unit_variant"
                THEN IF FrontName.input = <<>>
                     THEN IsOk(res) /\ res.val.v[2] = <<>>
                     ELSE res.err = "TrailingBytes"
                ELSE res.st = "err"
        /\ FrontCount = 2 /\ IsOk(FrontName) /\ FrontIdx # 0
             => CASE dty.of[FrontIdx].k = "unit_variant" ->
                        res.st = "err" /\ res.err = "ExpectedString"
                  [] dty.of[FrontIdx].k = "newtype_variant" ->
                        LET p == deserialize(FrontName.input, dty.of[FrontIdx].of[1])
                        IN  IF IsOk(p) /\ p.input = <<>>
                            THEN IsOk(res) /\ ValEq(res.val.v[2], p.val)
                            ELSE ~IsOk(res)
                  [] OTHER -> TRUE

C10_Witness ==
    /\ Decoded /\ dty.k = "enum" /\ Len(wire) >= 16
    /\ FrontIsHeader(types_PAREN) /\ FrontCount = 3
    /\ Len(AfterFrontHeader) > 0
    /\ res.err = "ExpectedEnum"

(***************************************************************************)
(* C11: option sentinel.  None is emitted as the 4 bytes 03 00 00 00 and   *)
(* Some(x) as the bytes of x alone.  Decoding an option looks at the tag   *)
(* after the zero padding: on 0x03 it takes exactly 4 bytes and yields     *)
(* None, otherwise it takes nothing and decodes the wrapped value from the *)
(* same place.                                                             *)
(***************************************************************************)
\* the wrapped value decoded from the place of the option
FrontWrapped == deserialize(Front, dty.of[1])

C11_OptionSentinel ==
    /\ Encoded /\ ty.k = "option" /\ value.k = "none"
          => Payload_of(enc.bytes) = <<3, 0, 0, 0>>
    /\ Encoded /\ ty.k = "option" /\ value.k = "some"
          => Payload_of(enc.bytes) = Emitted(ty.of[1], value.v[1])
    /\ Decoded /\ Len(wire) >= 16 /\ dty.k = "option" /\ Len(Front) >= 4 /\ Front[1] = 3
          => IF From(Front, 4) = <<>>
             THEN IsOk(res) /\ res.val.k = "none"
             ELSE res.st = "err" /\ res.err = "TrailingBytes" /\ res.input = From(Front, 4)
    /\ Decoded /\ Len(wire) >= 16 /\ dty.k = "option" /\ Len(Front) >= 1 /\ Front[1] # 3
          => IF ~IsOk(FrontWrapped)
             THEN res.st = FrontWrapped.st /\ res.err = FrontWrapped.err
                  /\ res.input = FrontWrapped.input
             ELSE IF FrontWrapped.input = <<>>
             THEN IsOk(res) /\ res.val.k = "some" /\ ValEq(res.val.v[1], FrontWrapped.val)
             ELSE res.st = "err" /\ res.err = "TrailingBytes"
                  /\ res.input = FrontWrapped.input

C11_Witness ==
    /\ Decoded /\ dty = Option(Prim("i32")) /\ tamper.kind = "append"
    /\ value.k = "none"
    /\ res.err = "TrailingBytes" /\ Len(res.input) = 1

(***************************************************************************)
(* C12: narrow integer decode.  A wire integer v decoded as i8, i16, u8 or *)
(* u16 yields v exactly when v is within the type's bounds and otherwise   *)
(* fails with the limit-exceeded error naming the type; as u32 it fails    *)
(* exactly when v < 0; as i32 or i64 it always yields v.                   *)
(***************************************************************************)
FrontIsInteger == Len(Front) >= 8 /\ SubSeq(Front, 1, 4) = <<11, 0, 0, 0>>
FrontInteger == from_le_bytes(SubSeq(Front, 5, 8))

Bounds(k) ==
    CASE k = "i8" -> [lo |-> -128, hi |-> 127]
      [] k = "i16" -> [lo |-> -32768, hi |-> 32767]
      [] k = "u8" -> [lo |-> 0, hi |-> 255]
      [] k = "u16" -> [lo |-> 0, hi |-> 65535]
      [] k = "u32" -> [lo |-> 0, hi |-> I32_MAX]
      [] OTHER -> [lo |-> I32_MIN, hi |-> I32_MAX]

\* from_bytes yields v as a value of the kind asked for (or finds bytes
\* after it)
YieldsInteger(v) ==
    IF From(Front, 8) # <<>>
    THEN res.st = "err" /\ res.err = "TrailingBytes"
    ELSE /\ IsOk(res)
         /\ CASE dty.k \in {"i8", "i16", "u8", "u16", "i32"} ->
                    res.val.k = "int" /\ res.val.v = v
              [] dty.k = "u32" ->
                    res.val.k = "wide" /\ res.val.v = <<v % 65536, v \div 65536>>
              [] dty.k = "i64" ->
                    /\ res.val.k = "wide"
                    /\ wide_as_i32(res.val.v) = v
                    /\ res.val.v[3] = (IF v < 0 THEN 65535 ELSE 0)
                    /\ res.val.v[4] = (IF v < 0 THEN 65535 ELSE 0)

C12_NarrowIntegerDecode ==
    Decoded /\ Len(wire) >= 16 /\ FrontIsInteger
            /\ dty.k \in {"i8", "i16", "u8", "u16", "u32", "i32", "i64"}
        => IF Bounds(dty.k).lo <= FrontInteger /\ FrontInteger <= Bounds(dty.k).hi
           THEN YieldsInteger(FrontInteger)
           ELSE /\ res.st = "err"
                /\ res.err = "Message: " \o dty.k \o " limit exceeded"

C12_Witness ==
    /\ Decoded /\ dty.k = "u8" /\ tamper = Untouched
    /\ FrontIsInteger /\ FrontInteger = 256
    /\ res.err = "Message: u8 limit exceeded"

(***************************************************************************)
(* C13: wide integer encode.  to_bytes of a u32 or u64 v succeeds exactly  *)
(* when v <= 2^31 - 1, of an i64 exactly when -2^31 <= v <= 2^31 - 1; on   *)
(* success the payload is 0B 00 00 00 and v in 4 little-endian bytes, on   *)
(* failure to_bytes returns the limit-exceeded error and no bytes.         *)
(***************************************************************************)
\* the value as 16-bit limbs, least significant first, four of them
Limbs == IF ty.k = "u32" THEN value.v \o <<0, 0>> ELSE value.v

FitsInteger ==
    \/ Limbs[4] = 0 /\ Limbs[3] = 0 /\ Limbs[2] < 32768
    \/ ty.k = "i64" /\ Limbs[4] = 65535 /\ Limbs[3] = 65535 /\ Limbs[2] >= 32768

C13_WideIntegerEncode ==
    pc # "idle" /\ ty.k \in {"u32", "u64", "i64"} =>
        IF FitsInteger
        THEN /\ enc.ok
             /\ Payload_of(enc.bytes)
                  = <<11, 0, 0, 0, Limbs[1] % 256, Limbs[1] \div 256,
                      Limbs[2] % 256, Limbs[2] \div 256>>
        ELSE /\ ~enc.ok
             /\ enc.err = "32-bit integer! limit exceeded"
             /\ enc.bytes = <<>>

C13_Witness ==
    /\ pc = "encoded" /\ ty.k = "u64" /\ value.v = <<0, 32768, 0, 0>>
    /\ ~enc.ok

(***************************************************************************)
(* C14: unsigned 64-bit decode.  Decoding a u64 reads a binary value (tag  *)
(* 0x29, unit width 1) of exactly 8 content bytes and yields them read as  *)
(* a little-endian number; a wire integer (tag 0x0B) in its place is       *)
(* rejected with ExpectedBinary.  Stated for the head position 0 that the  *)
(* encoder writes.                                                         *)
(***************************************************************************)
FrontIsBinary8 ==
    /\ Len(Front) >= 20
    /\ SubSeq(Front, 1, 4) = <<41, 1, 0, 0>>
    /\ SubSeq(Front, 5, 8) = <<0, 0, 0, 0>>
    /\ SubSeq(Front, 9, 12) = <<8, 0, 0, 0>>

C14_Unsigned64Decode ==
    /\ Decoded /\ Len(wire) >= 16 /\ dty.k = "u64" /\ Len(Front) >= 1 /\ Front[1] = 11
          => res.st = "err" /\ res.err = "ExpectedBinary"
    /\ Decoded /\ Len(wire) >= 16 /\ dty.k = "u64" /\ FrontIsBinary8
          => IF parse_padding(From(Front, 20)) # <<>>
             THEN res.st = "err" /\ res.err = "TrailingBytes"
             ELSE /\ IsOk(res) /\ res.val.k = "wide"
                  /\ res.val.v = [i \in 1..4 |-> Front[11 + 2 * i] + 256 * Front[12 + 2 * i]]

C14_Witness ==
    /\ Decoded /\ dty.k = "u64" /\ ty.k = "byte_buf" /\ FrontIsBinary8
    /\ IsOk(res) /\ res.val.v = <<65226, 1792, 265, 770>>

(***************************************************************************)
(* C15: float word swap.  For the 8 little-endian bytes b of a double the  *)
(* encoder emits 0C 00 00 00, then b[4..8], then b[0..4]; the decoder      *)
(* rebuilds b from the wire bytes w as w[8..12] then w[4..8]; decoding is  *)
(* the inverse of encoding.                                                *)
(***************************************************************************)
FrontIsFloat == Len(Front) >= 12 /\ SubSeq(Front, 1, 4) = <<12, 0, 0, 0>>

C15_FloatWordSwap ==
    /\ Encoded /\ ty.k = "f64"
          => Payload_of(enc.bytes)
               = (<<12, 0, 0, 0>> \o SubSeq(value.v, 5, 8)) \o SubSeq(value.v, 1, 4)
    /\ Decoded /\ Len(wire) >= 16 /\ dty.k = "f64" /\ FrontIsFloat
          => IF From(Front, 12) # <<>>
             THEN res.st = "err" /\ res.err = "TrailingBytes"
             ELSE /\ IsOk(res) /\ res.val.k = "f64"
                  /\ res.val.v = SubSeq(Front, 9, 12) \o SubSeq(Front, 5, 8)
    /\ Decoded /\ ty.k = "f64" /\ dty.k = "f64" /\ tamper = Untouched
          => IsOk(res) /\ ValEq(res.val, value)

\* 12.5 goes out as 0C 00 00 00 00 00 29 40 00 00 00 00 and comes back
C15_Witness ==
    /\ Decoded /\ ty.k = "f64" /\ tamper = Untouched
    /\ value.v = <<0, 0, 0, 0, 0, 0, 41, 64>>
    /\ Payload_of(enc.bytes) = <<12, 0, 0, 0, 0, 0, 41, 64, 0, 0, 0, 0>>
    /\ IsOk(res) /\ res.val.v = value.v

(***************************************************************************)
(* C16: alignment.  A string or a byte blob is emitted as a 12-byte        *)
(* header, its content and 0 to 3 zero bytes that make the length a        *)
(* multiple of 4; integer and logic values take 8 bytes, float 12, char 8, *)
(* none 4; every encoded payload has a length that is a multiple of 4.     *)
(***************************************************************************)
\* the bytes after the content that the header of a string or blob announces
PaddingOf(p) == From(p, 12 + p[2] * from_le_bytes(SubSeq(p, 9, 12)))

C16_Alignment ==
    Encoded =>
        LET p == Payload_of(enc.bytes)
        IN  /\ Len(p) % 4 = 0
            /\ ty.k \in {"str", "string", "byte_buf"}
                 => /\ Len(p) >= 12 + p[2] * from_le_bytes(SubSeq(p, 9, 12))
                    /\ Len(PaddingOf(p)) \in 0..3
                    /\ \A i \in 1..Len(PaddingOf(p)) : PaddingOf(p)[i] = 0
            /\ ty.k = "byte_buf" => p[2] * from_le_bytes(SubSeq(p, 9, 12)) = Len(value.v)
            /\ ty.k \in {"i8", "i16", "i32", "i64", "u8", "u16", "u32", "u64", "bool"}
                 => Len(p) = 8
            /\ ty.k = "f64" => Len(p) = 12
            /\ ty.k = "char" => Len(p) = 8
            /\ ty.k \in {"unit", "unit_struct"} \/ (ty.k = "option" /\ value.k = "none")
                 => Len(p) = 4

C16_Witness ==
    /\ pc = "encoded" /\ enc.ok /\ ty.k = "byte_buf" /\ Len(value.v) = 3
    /\ Len(Payload_of(enc.bytes)) = 16

(***************************************************************************)
(* C17: text unit width on encode.  A string of ASCII code points only     *)
(* (the empty one included) is emitted with unit width 1, length = byte    *)
(* count and its bytes zero-padded to a multiple of 4; a string with a     *)
(* non-ASCII code point with unit width 4, length = code-point count and   *)
(* 4 x length bytes of UCS-4LE, unpadded.                                  *)
(***************************************************************************)
IsAscii(x) == \A i \in 1..Len(x) : x[i] < 128

\* the fewest zero bytes that bring n to a multiple of 4
ZerosTo4(n) == [i \in 1..(CHOOSE k \in 0..3 : (n + k) % 4 = 0) |-> 0]

Ucs4Le(x) ==
    Flatten([i \in 1..Len(x) |->
                <<x[i] % 256, (x[i] \div 256) % 256, (x[i] \div 65536) % 256, 0>>])

C17_TextUnitWidth ==
    Encoded /\ ty.k \in {"str", "string"} =>
        Payload_of(enc.bytes) =
            IF IsAscii(value.v)
            THEN ((<<7, 1, 0, 0, 0, 0, 0, 0>> \o <<Len(value.v), 0, 0, 0>>)
                  \o value.v) \o ZerosTo4(Len(value.v))
            ELSE (<<7, 4, 0, 0, 0, 0, 0, 0>> \o <<Len(value.v), 0, 0, 0>>)
                 \o Ucs4Le(value.v)

C17_Witness ==
    /\ pc = "encoded" /\ enc.ok /\ ty.k = "string" /\ value.v = <<97, 261>>
    /\ Len(Payload_of(enc.bytes)) = 20

(***************************************************************************)
(* C18: record encoding.  A record with n fields is emitted as a block     *)
(* header of count 2n and then, field by field in declaration order, the   *)
(* field name as a string and the field value's encoding; a unit-like      *)
(* record as the 4-byte none value.                                        *)
(***************************************************************************)
RecordOnWire(t, fields) ==
    Flatten([i \in 1..Len(fields) |->
                WireString(t.names[i]) \o Emitted(t.of[i], fields[i])])

C18_RecordEncoding ==
    /\ Encoded /\ ty.k = "struct"
          => Payload_of(enc.bytes)
               = WireHeader(types_BLOCK, 2 * Len(ty.names)) \o RecordOnWire(ty, value.v)
    /\ Encoded /\ ty.k = "unit_struct" => Payload_of(enc.bytes) = <<3, 0, 0, 0>>

\* { a: 12.5, b: "a" }: count 4, "a", 12.5, "b", "a"
C18_Witness ==
    /\ pc = "encoded" /\ enc.ok /\ ty = WhatNot
    /\ value.v[2].v = <<97>>
    /\ Payload_of(enc.bytes)
         = <<5, 0, 0, 0, 0, 0, 0, 0, 4, 0, 0, 0,
             7, 1, 0, 0, 0, 0, 0, 0, 1, 0, 0, 0, 97, 0, 0, 0,
             12, 0, 0, 0, 0, 0, 41, 64, 0, 0, 0, 0,
             7, 1, 0, 0, 0, 0, 0, 0, 1, 0, 0, 0, 98, 0, 0, 0,
             7, 1, 0, 0, 0, 0, 0, 0, 1, 0, 0, 0, 97, 0, 0, 0>>

(***************************************************************************)
(* C19: the head position is inert on decode.  For a string or binary      *)
(* value with the reference flag clear, whatever the 4-byte head position  *)
(* holds, the decoded content and the bytes consumed are those of head     *)
(* position 0: the full length x unit width bytes after the header.        *)
(***************************************************************************)
\* the head position of the top-level value is word 5 of the buffer
HeadChanged == tamper.kind = "word" /\ tamper.pos = 5

C19_HeadInert ==
    Decoded /\ dty = ty /\ ty.k \in {"str", "string", "byte_buf"} /\ HeadChanged
            /\ IsOk(from_bytes(enc.bytes, ty))
        => IsOk(res) /\ ValEq(res.val, from_bytes(enc.bytes, ty).val)

(***************************************************************************)
(* C20: sequence and map encoding.  Wherever a sequence of n elements or a *)
(* map of n pairs stands (top level, container element, field, map value,  *)
(* payload of Some or of a newtype struct), it is emitted as a block       *)
(* header of count n (sequence) or 2n (map) right before the elements'     *)
(* encodings (key then value for a map), in the order the value gives      *)
(* them.  Values inside an enum variant are the subject of C7 and C8.      *)
(***************************************************************************)
RECURSIVE Layout(_, _)
\* the bytes of a value, built from the bytes of its parts
Layout(t, v) ==
    CASE t.k = "seq" ->
            WireHeader(types_BLOCK, Len(v.v))
            \o Flatten([i \in 1..Len(v.v) |-> Layout(t.of[1], v.v[i])])
      [] t.k = "map" ->
            WireHeader(types_BLOCK, 2 * Len(v.v))
            \o Flatten([i \in 1..Len(v.v) |->
                           Layout(t.of[1], v.v[i][1]) \o Layout(t.of[2], v.v[i][2])])
      [] t.k \in {"tuple", "tuple_struct"} ->
            WireHeader(types_BLOCK, Len(v.v))
            \o Flatten([i \in 1..Len(v.v) |-> Layout(t.of[i], v.v[i])])
      [] t.k = "struct" ->
            WireHeader(types_BLOCK, 2 * Len(v.v))
            \o Flatten([i \in 1..Len(v.v) |->
                           WireString(t.names[i]) \o Layout(t.of[i], v.v[i])])
      [] t.k = "option" ->
            IF v.k = "none" THEN <<3, 0, 0, 0>> ELSE Layout(t.of[1], v.v[1])
      [] t.k = "newtype_struct" -> Layout(t.of[1], v.v)
      [] OTHER -> Emitted(t, v)

C20_SequenceMapEncoding ==
    Encoded /\ ty.k # "enum" => Payload_of(enc.bytes) = Layout(ty, value)

\* { 0: [0], 255: [255] }: count 4, then 0, [0], 255, [255]
C20_Witness ==
    /\ pc = "encoded" /\ enc.ok
    /\ ty = BTreeMap(Prim("u8"), Vec(Prim("u8")))
    /\ Len(value.v) = 2 /\ Len(value.v[2][2].v) = 1
    /\ SubSeq(Payload_of(enc.bytes), 1, 20) = WireHeader(types_BLOCK, 4) \o <<11, 0, 0, 0, 0, 0, 0, 0>>

(***************************************************************************)
(* C21: padding skip on decode.  When the bytes to_bytes returned decode   *)
(* to a value, the same bytes with zero bytes put before the tag byte of   *)
(* any value in them, the top one or a part, decode to the same value.     *)
(***************************************************************************)
ZerosInserted == tamper.kind = "insert"

C21_PaddingSkip ==
    Decoded /\ ZerosInserted /\ IsOk(from_bytes(enc.bytes, dty))
        => IsOk(res) /\ ValEq(res.val, from_bytes(enc.bytes, dty).val)

\* a WhatNot with four zero bytes between the field name "a" and the float
\* of the field
C21_Witness ==
    /\ Decoded /\ ZerosInserted /\ ty = WhatNot /\ dty = ty
    /\ tamper.pos = 28 /\ tamper.b = 4
    /\ SubSeq(wire, 16 + 29, 16 + 36) = <<0, 0, 0, 0, types_FLOAT, 0, 0, 0>>
    /\ IsOk(res) /\ ValEq(res.val, value)

(***************************************************************************)
(* C22: sequence decode count.  For a block of count c, next_element       *)
(* returns one element on each of the first max(c, 0) calls while the      *)
(* elements decode, and None on every later call, taking no byte; the      *)
(* counter goes down by 1 for each element returned and stays when the     *)
(* element does not decode.                                                *)
(***************************************************************************)
NonNegative(c) == IF c > 0 THEN c ELSE 0

C22_SequenceDecodeCount ==
    last.op = "next_element" =>
        /\ last.st = "ok" => (last.some <=> block.calls <= NonNegative(block.count))
        /\ last.st = "ok" /\ last.some => block.elements = last.elements - 1
        /\ last.st = "ok" /\ ~last.some
              => cursor = last.cursor /\ block.elements = last.elements
        /\ last.st # "ok" => block.elements = last.elements

\* [0, 255] as Vec<u8>: two elements, then None twice
C22_Witness ==
    /\ last.op = "next_element" /\ last.st = "ok" /\ ~last.some
    /\ dty = Vec(Prim("u8")) /\ tamper = Untouched
    /\ block.count = 2 /\ block.calls = 4 /\ block.elements = 0
    /\ cursor = <<>>

(***************************************************************************)
(* C23: key/value protocol.  In a map or record entered through            *)
(* deserialize_map, with a visitor that asks for a key, then for its       *)
(* value, and stops at None: the counter is even at every next_key call,   *)
(* next_key returns None exactly when fewer than 2 elements remain, the    *)
(* counter does not go below 0 when the count was not, and NoMapValue is   *)
(* never returned.                                                         *)
(***************************************************************************)
C23_KeyValueProtocol ==
    /\ last.op = "next_key" => last.elements % 2 = 0
    /\ last.op = "next_key" /\ last.st = "ok" => (~last.some <=> last.elements < 2)
    /\ last.op \in {"next_key", "next_value"} /\ block.count >= 0 => block.elements >= 0
    /\ last.err # "NoMapValue"

\* a map of two entries: key, value, key, value, then None
C23_Witness ==
    /\ last.op = "next_key" /\ last.st = "ok" /\ ~last.some
    /\ dty = BTreeMap(Prim("u8"), Vec(Prim("u8"))) /\ tamper = Untouched
    /\ block.count = 4 /\ block.calls = 5 /\ block.elements = 0
    /\ cursor = <<>>

(***************************************************************************)
(* C24: the headers to_bytes writes.  In every output of to_bytes, the tag *)
(* word of each value has its two high bytes zero, and its second byte     *)
(* zero but in a string header (1 or 4, never 2) and in a binary header    *)
(* (1); the reference flag is never set; the head position of every block, *)
(* paren, string and binary header is zero.                                *)
(***************************************************************************)
HeaderAsSpecified(p, o) ==
    LET tag == p[o + 1]
        unit == p[o + 2]
    IN  /\ p[o + 3] = 0 /\ p[o + 4] = 0
        /\ tag = types_STRING => unit \in {1, 4}
        /\ tag = types_BINARY => unit = 1
        /\ tag \notin {types_STRING, types_BINARY} => unit = 0
        /\ ~refer_flag(p[o + 3])
        /\ tag \in {types_BLOCK, types_PAREN, types_STRING, types_BINARY}
              => SubSeq(p, o + 5, o + 8) = <<0, 0, 0, 0>>

C24_EncoderHeaders ==
    Encoded => \A o \in TagOffsets(ty, value) :
                  HeaderAsSpecified(Payload_of(enc.bytes), o)

\* a block holding a string of 4-byte units and one of 1-byte units
C24_Witness ==
    /\ pc = "encoded" /\ enc.ok
    /\ ty = Vec(Prim("string"))
    /\ value.v = <<Val("string", <<261>>), Val("string", <<97>>)>>
    /\ TagOffsets(ty, value) = {0, 12, 28}
    /\ Payload_of(enc.bytes)[14] = 4 /\ Payload_of(enc.bytes)[30] = 1

(***************************************************************************)
(* C25: cursor monotonicity.  After any sequence of calls, each returning  *)
(* a value or an error, the remaining input is a suffix of what it was     *)
(* before the call; a parse_* call that returns an expected-kind error has *)
(* taken zero bytes from the front and nothing else.                       *)
(***************************************************************************)
IsSuffix(a, b) == Len(a) <= Len(b) /\ a = From(b, Len(b) - Len(a))

ExpectedKind ==
    {"ExpectedInteger", "ExpectedBlock", "ExpectedLogic", "ExpectedFloat",
     "ExpectedString", "ExpectedChar", "ExpectedBinary", "ExpectedNone"}

\* what the last call took from the front
Taken == SubSeq(last.cursor, 1, Len(last.cursor) - Len(cursor))

C25_CursorMonotone ==
    /\ last.st \in {"ok", "err"} => IsSuffix(cursor, last.cursor)
    /\ last.op \in ParseOps /\ last.st = "err" /\ last.err \in ExpectedKind
          => Taken = Zeros(Len(Taken))

\* a string behind two zero bytes met by parse_logic: the zero bytes are
\* gone, the string is there
C25_Witness ==
    /\ last.op = "parse_logic" /\ last.err = "ExpectedLogic"
    /\ Taken = <<0, 0>>
    /\ cursor # <<>> /\ cursor[1] = types_STRING

(***************************************************************************)
(* C26: block fully consumed.  When decoding a block through               *)
(* deserialize_seq or deserialize_tuple succeeds, all the elements the     *)
(* header of the block declares have been taken: the value has as many     *)
(* elements as the header says, for the top block and for a tuple nested   *)
(* in a tuple.                                                             *)
(***************************************************************************)
\* the header of the block that is the first element of the top block
InnerHeader == parse_padding(AfterFrontHeader)

C26_BlockConsumed ==
    /\ Decoded /\ IsOk(res) /\ dty.k \in {"seq", "tuple", "tuple_struct"}
          /\ FrontIsHeader(types_BLOCK)
          => Len(res.val.v) = NonNegative(FrontCount)
    /\ Decoded /\ IsOk(res) /\ FrontIsHeader(types_BLOCK)
          /\ dty = Tuple(<<Tuple(<<Prim("u8"), Prim("u8")>>), Prim("u8")>>)
          => Len(res.val.v[1].v) = NonNegative(from_le_bytes(SubSeq(InnerHeader, 9, 12)))

(***************************************************************************)
(* C27: present options stay present.  For every value x of a supported    *)
(* type T, unit, a unit-like record and an option holding None included,   *)
(* from_bytes::<Option<T>> of to_bytes(Some(x)) is Some(x), never None.    *)
(***************************************************************************)
C27_PresentStaysPresent ==
    Decoded /\ tamper = Untouched /\ dty = ty /\ ty.k = "option" /\ value.k = "some"
        => IsOk(res) /\ ValEq(res.val, value)

====
